---- MODULE Spec2Model ----
(***************************************************************************)
(* Model of the LED update batching of openrgb-rs2 (client/command.rs):    *)
(* one UpdateLedCommand built against one Controller snapshot, the updates *)
(* queued on it, and the single update-leds packet execute writes to the   *)
(* protocol stream.                                                        *)
(***************************************************************************)
EXTENDS Integers, Sequences, FiniteSets, TLC

(***************************************************************************)
(* Bounds of the model.                                                    *)
(***************************************************************************)
\* longest colour vector a caller hands to a multi-LED update
MaxColors == 2
\* largest led_id a caller hands to add_set_led
MaxLedId == 3
\* largest in-zone / in-segment led_idx a caller hands to the single-LED forms
MaxLedIdx == 1
\* number of updates queued on one command before it is executed
MaxQueued == 2

(***************************************************************************)
(* Program constants.                                                      *)
(***************************************************************************)
RGBControllerUpdateLeds == 1050
RGBControllerUpdateZoneLeds == 1051
U16_MAX == 65535

(***************************************************************************)
(* Colors.  Color is rgb::RGB8; Color::default() is (0, 0, 0).             *)
(***************************************************************************)
ColorDefault == <<0, 0, 0>>
Red == <<255, 0, 0>>
Green == <<0, 255, 0>>
Palette == {Red, Green}

Max(a, b) == IF a >= b THEN a ELSE b
Min(a, b) == IF a <= b THEN a ELSE b

\* colour vectors of length 0..n over the palette
ColorVecs(n) == UNION {[1..k -> Palette] : k \in 0..n}

(***************************************************************************)
(* Controller snapshots (ControllerData as decoded from the server).       *)
(* Option<T> is a sequence of length 0 (None) or 1 (Some).                 *)
(***************************************************************************)
None == <<>>
Some(x) == <<x>>

SegmentData(start, count) == [start_idx |-> start, led_count |-> count]
ZoneData(count, segs) == [id |-> -1, leds_count |-> count, segments |-> segs]

\* ControllerData::deserialize: every zone gets its position as id and
\* num_leds is the sum of the zones' leds_count
RECURSIVE SumLedsCount(_)
SumLedsCount(zs) ==
    IF zs = <<>> THEN 0 ELSE Head(zs).leds_count + SumLedsCount(Tail(zs))

ControllerData(cid, zs) ==
    [id |-> cid,
     zones |-> [i \in 1..Len(zs) |-> [zs[i] EXCEPT !.id = i - 1]],
     num_leds |-> SumLedsCount(zs)]

\* a 3-LED device with two zones, protocol >= 4 (segments present)
ControllerA ==
    ControllerData(1, << ZoneData(1, Some(<<SegmentData(0, 1)>>)),
                         ZoneData(2, Some(<<SegmentData(1, 1)>>)) >>)
\* a 1-LED device read at protocol < 4 (no segment list)
ControllerB ==
    ControllerData(0, << ZoneData(1, None) >>)

Controllers == {ControllerA, ControllerB}

(***************************************************************************)
(* Results.                                                                *)
(***************************************************************************)
OkVal(v) == [err |-> "Ok", val |-> v]
ErrVal(e) == [err |-> e, val |-> 0]

(***************************************************************************)
(* Controller, Zone and Segment accessors.                                 *)
(***************************************************************************)
\* get_zone_led_offset counting the zone itself (z.id <= zone_id)
RECURSIVE SumBelow_inclusive(_, _)
SumBelow_inclusive(zs, zone_id) ==
    IF zs = <<>> THEN 0
    ELSE (IF Head(zs).id <= zone_id THEN Head(zs).leds_count ELSE 0)
         + SumBelow_inclusive(Tail(zs), zone_id)

\* Controller::get_zone_led_offset
RECURSIVE SumBelow(_, _)
SumBelow(zs, zone_id) ==
    IF zs = <<>> THEN 0
    ELSE (IF Head(zs).id < zone_id THEN Head(zs).leds_count ELSE 0)
         + SumBelow(Tail(zs), zone_id)

get_zone_led_offset(c, zone_id) ==
    IF zone_id >= Len(c.zones)
    THEN ErrVal("ProtocolError")
    ELSE OkVal(SumBelow(c.zones, zone_id))

\* Controller::get_zone: zones().get(zone_id)
get_zone(c, zone_id) ==
    IF zone_id < Len(c.zones)
    THEN [err |-> "Ok", val |-> c.zones[zone_id + 1]]
    ELSE [err |-> "CommandError", val |-> ZoneData(0, None)]

\* Zone::get_segment
get_segment(zone, segment_id) ==
    IF zone.segments = None
    THEN [err |-> "CommandError", val |-> SegmentData(0, 0)]
    ELSE IF segment_id < Len(zone.segments[1])
         THEN [err |-> "Ok", val |-> zone.segments[1][segment_id + 1]]
         ELSE [err |-> "CommandError", val |-> SegmentData(0, 0)]

\* a segment offset taken relative to the device instead of the zone
zone_offset_zero(c, zone) == 0

\* Zone::offset: the zone id of a Zone handle is always valid
zone_offset(c, zone) == get_zone_led_offset(c, zone.id).val

(***************************************************************************)
(* Vec and slice primitives used by the batch.                             *)
(***************************************************************************)
\* Vec::resize(new_len, value)
resize(v, new_len, value) ==
    IF new_len > Len(v)
    THEN v \o [i \in 1..(new_len - Len(v)) |-> value]
    ELSE SubSeq(v, 1, new_len)

\* v[from..to].copy_from_slice(src): panics when the range is not inside v
\* or when the lengths differ
copy_from_slice(v, from, to, src) ==
    IF from > to \/ to > Len(v) \/ to - from # Len(src)
    THEN [err |-> "panic", val |-> v]
    ELSE [err |-> "Ok",
          val |-> [i \in 1..Len(v) |->
                     IF from < i /\ i <= to THEN src[i - from] ELSE v[i]]]

(***************************************************************************)
(* UpdateLedCommand.                                                       *)
(***************************************************************************)
\* a buffer created with num_leds default entries instead of none
new_colors_filled(c) == [i \in 1..c.num_leds |-> ColorDefault]

\* UpdateLedCommand::new: Vec::with_capacity(num_leds) is an empty vector
new_colors(c) == <<>>

\* set_colors that keeps the entries the buffer already holds
set_colors_keep_old(buf, offset, src) ==
    LET len == offset + Len(src)
        grown == IF Len(buf) < len THEN resize(buf, len, ColorDefault) ELSE buf
        r == copy_from_slice(grown, offset, len, src)
    IN [r EXCEPT !.val = [i \in 1..Len(r.val) |->
                            IF i <= Len(buf) THEN buf[i] ELSE r.val[i]]]

\* set_colors that resizes to the end of the range unconditionally
set_colors_always_resize(buf, offset, src) ==
    LET len == offset + Len(src)
        grown == resize(buf, len, ColorDefault)
    IN copy_from_slice(grown, offset, len, src)

\* UpdateLedCommand::set_colors
set_colors(buf, offset, src) ==
    LET len == offset + Len(src)
        grown == IF Len(buf) < len THEN resize(buf, len, ColorDefault) ELSE buf
    IN copy_from_slice(grown, offset, len, src)

\* the outcome of queuing one update: the result, the buffer afterwards,
\* whether tracing::warn! fired, and the range handed to set_colors
Queued(r, warned, offset, src) ==
    [err |-> r.err, colors |-> r.val, warned |-> warned,
     offset |-> offset, src |-> src]
Rejected(e, buf) ==
    [err |-> e, colors |-> buf, warned |-> FALSE, offset |-> 0, src |-> <<>>]

\* the four variants of UpdateCommand
CmdController(vec) ==
    [kind |-> "Controller", zone_id |-> 0, segment_id |-> 0, led_id |-> 0,
     colors |-> vec]
CmdZone(zone_id, vec) ==
    [kind |-> "Zone", zone_id |-> zone_id, segment_id |-> 0, led_id |-> 0,
     colors |-> vec]
CmdSegment(zone_id, segment_id, vec) ==
    [kind |-> "Segment", zone_id |-> zone_id, segment_id |-> segment_id,
     led_id |-> 0, colors |-> vec]
CmdSingle(led_id, color) ==
    [kind |-> "Single", zone_id |-> 0, segment_id |-> 0, led_id |-> led_id,
     colors |-> <<color>>]

\* the Zone variant without the cut to the zone's length
zone_slice_len_all(vec, zone) == Len(vec)

\* colors.len().min(zone.num_leds()) of the Zone variant
zone_slice_len(vec, zone) == Min(Len(vec), zone.leds_count)

\* UpdateLedCommand::add_command
add_command(c, buf, cmd) ==
    CASE cmd.kind = "Controller" ->
           Queued(set_colors(buf, 0, cmd.colors),
                  Len(cmd.colors) > c.num_leds, 0, cmd.colors)
      [] cmd.kind = "Zone" ->
           LET zone == get_zone(c, cmd.zone_id)
               offset == get_zone_led_offset(c, cmd.zone_id)
               len == zone_slice_len(cmd.colors, zone.val)
               src == SubSeq(cmd.colors, 1, len)
           IN IF zone.err # "Ok" THEN Rejected(zone.err, buf)
              ELSE IF offset.err # "Ok" THEN Rejected(offset.err, buf)
              ELSE Queued(set_colors(buf, offset.val, src),
                          Len(cmd.colors) >= zone.val.leds_count,
                          offset.val, src)
      [] cmd.kind = "Segment" ->
           LET zone == get_zone(c, cmd.zone_id)
               seg == get_segment(zone.val, cmd.segment_id)
               offset == zone_offset(c, zone.val) + seg.val.start_idx
           IN IF zone.err # "Ok" THEN Rejected(zone.err, buf)
              ELSE IF seg.err # "Ok" THEN Rejected(seg.err, buf)
              ELSE Queued(set_colors(buf, offset, cmd.colors),
                          Len(cmd.colors) >= seg.val.led_count,
                          offset, cmd.colors)
      [] cmd.kind = "Single" ->
           Queued(set_colors(buf, cmd.led_id, cmd.colors),
                  cmd.led_id >= c.num_leds, cmd.led_id, cmd.colors)

\* UpdateLedCommand::add_set_led
add_set_led(c, buf, led_id, color) ==
    add_command(c, buf, CmdSingle(led_id, color))

\* UpdateLedCommand::add_set_leds
add_set_leds(c, buf, vec) ==
    add_command(c, buf, CmdController(vec))

\* UpdateLedCommand::add_set_zone_led
add_set_zone_led(c, buf, zone_id, led_idx, color) ==
    LET offset == get_zone_led_offset(c, zone_id)
    IN IF offset.err # "Ok" THEN Rejected(offset.err, buf)
       ELSE add_command(c, buf, CmdSingle(offset.val + led_idx, color))

\* UpdateLedCommand::add_set_zone_leds
add_set_zone_leds(c, buf, zone_id, vec) ==
    add_command(c, buf, CmdZone(zone_id, vec))

\* UpdateLedCommand::add_set_segment_led
add_set_segment_led(c, buf, zone_id, segment_id, led_idx, color) ==
    LET zone == get_zone(c, zone_id)
        seg == get_segment(zone.val, segment_id)
    IN IF zone.err # "Ok" THEN Rejected(zone.err, buf)
       ELSE IF seg.err # "Ok" THEN Rejected(seg.err, buf)
       ELSE add_command(c, buf, CmdSingle(led_idx + seg.val.start_idx, color))

\* UpdateLedCommand::add_set_segment_leds
add_set_segment_leds(c, buf, zone_id, segment_id, vec) ==
    add_command(c, buf, CmdSegment(zone_id, segment_id, vec))

(***************************************************************************)
(* Protocol layer reached by execute.                                      *)
(***************************************************************************)
\* OpenRgbPacket<&[Color]>::serialize: a u32 length (content bytes + 4), a
\* u16 colour count, then 4 bytes per colour; a slice longer than u16::MAX
\* does not serialize
serialize_colors(vec) ==
    IF Len(vec) > U16_MAX
    THEN [err |-> "ProtocolError", val |-> <<>>]
    ELSE [err |-> "Ok",
          val |-> Some([part |-> "payload",
                        data_size |-> (2 + 4 * Len(vec)) + 4,
                        num_colors |-> Len(vec),
                        colors |-> vec,
                        len |-> 4 + 2 + 4 * Len(vec)])]

\* ProtocolStream::write_packet: serialize first, then write the header,
\* then the payload.  io names the write_all call that fails, if any.
write_packet(w, device_id, packet_id, ser, io) ==
    IF ser.err # "Ok" THEN [err |-> ser.err, wire |-> w]
    ELSE LET payload == ser.val[1]
             header == [part |-> "header", device_id |-> device_id,
                        packet_id |-> packet_id, packet_size |-> payload.len]
         IN IF io = "header" THEN [err |-> "CommunicationError", wire |-> w]
            ELSE IF io = "payload"
            THEN [err |-> "CommunicationError", wire |-> Append(w, header)]
            ELSE [err |-> "Ok", wire |-> w \o <<header, payload>>]

\* update_leds sent with the packet id of update_zone_leds
update_leds_zone_kind(w, controller_id, vec, io) ==
    write_packet(w, controller_id, RGBControllerUpdateZoneLeds,
                 serialize_colors(vec), io)

\* OpenRgbProtocol::update_leds
update_leds(w, controller_id, vec, io) ==
    write_packet(w, controller_id, RGBControllerUpdateLeds,
                 serialize_colors(vec), io)

\* Controller::set_leds
set_leds(w, c, vec, io) == update_leds(w, c.id, vec, io)

\* UpdateLedCommand::execute
execute(w, c, buf, io) == set_leds(w, c, buf, io)

IoOutcomes == {"none", "header", "payload"}

\* ids a caller may pass: every valid one and the first invalid one
ZoneIds(c) == 0..Len(c.zones)
SegmentIds(c) ==
    LET counts == {IF c.zones[i].segments = None THEN 0
                   ELSE Len(c.zones[i].segments[1]) : i \in 1..Len(c.zones)}
    IN 0..(CHOOSE m \in counts : \A n \in counts : n <= m)

(***************************************************************************)
(* State.                                                                  *)
(***************************************************************************)
VARIABLES
    controller,  \* the Controller the command was created for
    colors,      \* UpdateLedCommand.colors
    phase,       \* "open" until execute consumes the command
    wire,        \* what has been written to the stream, in order
    last,        \* the last call on the command and its outcome
    pre,         \* colors before the last call
    cover,       \* per buffer index: the colour the last covering update gave
    maxEnd,      \* largest end of a range handed to set_colors so far
    queued,      \* number of updates accepted so far
    \* -- UpdateLedCommandGroup over a ControllerGroup --
    group,       \* ControllerGroup.controllers
    commands,    \* UpdateLedCommandGroup.commands: controller id -> command
    pending,     \* keys execute's into_values iterator has not yielded yet
    gphase,      \* "open", "executing", "done" or "failed"
    gwire,       \* what the group's execute has written to the stream
    glast,       \* the last call on the group command and its outcome
    gpre,        \* commands before the last call
    addressed,   \* per controller id: the buffer of the updates addressed to it
    gqueued,     \* number of add_update_* calls made so far
    \* -- one caller on a protocol session --
    proto,       \* OpenRgbProtocol: protocol_id, the stream, lock acquisitions
    sphase,      \* "new" until OpenRgbProtocol::new returns: "connected", "failed"
    server_max,  \* the maximum protocol version of the server
    slast,       \* the last call on the session and what it did
    sops,        \* number of calls made on the connected session
    \* -- several callers on clones of one session --
    callers,     \* per caller: where its call stands (at, next) and the call
    guard,       \* the caller that holds the stream's MutexGuard, 0 for none
    events,      \* the stream operations done so far, in order
    served,      \* number of bytes of the stream the server has consumed
    returned,    \* the calls that returned, with what they returned
    abandoned,   \* some caller dropped its call before it returned
    issued,      \* number of calls made so far
    \* -- one value through the codec --
    cty,         \* the type of the value
    cx,          \* the value
    cmsg,        \* the ReceivedMessage: buf, idx, protocol_version
    cstage,      \* "value", "encoded", "cut" (a strict prefix) or "received"
    clast,       \* the last codec call and its outcome
    creads       \* number of reads made on cmsg so far

ledVars == <<controller, colors, phase, wire, last, pre, cover, maxEnd, queued>>
groupVars ==
    <<group, commands, pending, gphase, gwire, glast, gpre, addressed, gqueued>>
sessionVars == <<proto, sphase, server_max, slast, sops>>
callerVars == <<callers, guard, events, served, returned, abandoned, issued>>
codecVars == <<cty, cx, cmsg, cstage, clast, creads>>
vars == <<ledVars, groupVars, sessionVars, callerVars, codecVars>>

\* the codec plays no part in a behaviour
CodecParked ==
    /\ cty = <<>>
    /\ cx = <<>>
    /\ cmsg = <<>>
    /\ cstage = "parked"
    /\ clast = <<>>
    /\ creads = 0

\* the group command plays no part in a behaviour
GroupParked ==
    /\ group = <<>>
    /\ commands = <<>>
    /\ pending = {}
    /\ gphase = "parked"
    /\ gwire = <<>>
    /\ glast = <<>>
    /\ gpre = <<>>
    /\ addressed = <<>>
    /\ gqueued = 0

\* no caller shares the session in a behaviour
CallersParked ==
    /\ callers = <<>>
    /\ guard = 0
    /\ events = <<>>
    /\ served = 0
    /\ returned = {}
    /\ abandoned = FALSE
    /\ issued = 0

\* the protocol session plays no part in a behaviour
SessionParked ==
    /\ proto = <<>>
    /\ sphase = "parked"
    /\ server_max = 0
    /\ slast = <<>>
    /\ sops = 0

Call(op, zone_id, segment_id, led, vec, r) ==
    [op |-> op, zone_id |-> zone_id, segment_id |-> segment_id, led |-> led,
     colors |-> vec, res |-> r.err, warned |-> r.warned,
     offset |-> r.offset, src |-> r.src]

NoCall ==
    [op |-> "new", zone_id |-> 0, segment_id |-> 0, led |-> 0,
     colors |-> <<>>, res |-> "Ok", warned |-> FALSE,
     offset |-> 0, src |-> <<>>]

\* the single-controller command plays no part in a behaviour
LedParked ==
    /\ controller = ControllerB
    /\ colors = <<>>
    /\ phase = "parked"
    /\ wire = <<>>
    /\ last = NoCall
    /\ pre = <<>>
    /\ cover = <<>>
    /\ maxEnd = 0
    /\ queued = 0

\* history of the ranges handed to set_colors: an index covered by an update
\* records the colour that update gave it, and whether that replaced a
\* different colour given by an earlier update
Covered(cv, offset, src) ==
    [i \in 1..Max(Len(cv), offset + Len(src)) |->
        IF offset < i /\ i <= offset + Len(src)
        THEN [given |-> Some(src[i - offset]),
              over |-> /\ i <= Len(cv)
                       /\ cv[i].given # None
                       /\ cv[i].given # Some(src[i - offset])]
        ELSE IF i <= Len(cv) THEN cv[i]
        ELSE [given |-> None, over |-> FALSE]]

Init ==
    /\ controller \in Controllers
    /\ colors = new_colors(controller)
    /\ phase = "open"
    /\ wire = <<>>
    /\ last = NoCall
    /\ pre = <<>>
    /\ cover = <<>>
    /\ maxEnd = 0
    /\ queued = 0
    /\ GroupParked
    /\ SessionParked
    /\ CallersParked
    /\ CodecParked

\* the effect of one queuing call with outcome r
Apply(call, r) ==
    /\ last' = call
    /\ pre' = colors
    /\ colors' = r.colors
    /\ IF r.err = "Ok"
       THEN /\ cover' = Covered(cover, r.offset, r.src)
            /\ maxEnd' = Max(maxEnd, r.offset + Len(r.src))
            /\ queued' = queued + 1
       ELSE UNCHANGED <<cover, maxEnd, queued>>
    /\ UNCHANGED <<controller, phase, wire>>
    /\ UNCHANGED <<groupVars, sessionVars, callerVars, codecVars>>

CanQueue == phase = "open" /\ queued < MaxQueued

AddSetLed ==
    /\ CanQueue
    /\ \E led_id \in 0..MaxLedId, color \in Palette :
         LET r == add_set_led(controller, colors, led_id, color)
         IN Apply(Call("add_set_led", 0, 0, led_id, <<color>>, r), r)

AddSetLeds ==
    /\ CanQueue
    /\ \E vec \in ColorVecs(MaxColors) :
         LET r == add_set_leds(controller, colors, vec)
         IN Apply(Call("add_set_leds", 0, 0, 0, vec, r), r)

AddSetZoneLed ==
    /\ CanQueue
    /\ \E zone_id \in ZoneIds(controller), led_idx \in 0..MaxLedIdx,
          color \in Palette :
         LET r == add_set_zone_led(controller, colors, zone_id, led_idx, color)
         IN Apply(Call("add_set_zone_led", zone_id, 0, led_idx, <<color>>, r), r)

AddSetZoneLeds ==
    /\ CanQueue
    /\ \E zone_id \in ZoneIds(controller), vec \in ColorVecs(MaxColors) :
         LET r == add_set_zone_leds(controller, colors, zone_id, vec)
         IN Apply(Call("add_set_zone_leds", zone_id, 0, 0, vec, r), r)

AddSetSegmentLed ==
    /\ CanQueue
    /\ \E zone_id \in ZoneIds(controller), segment_id \in SegmentIds(controller),
          led_idx \in 0..MaxLedIdx, color \in Palette :
         LET r == add_set_segment_led(controller, colors, zone_id, segment_id,
                                      led_idx, color)
         IN Apply(Call("add_set_segment_led", zone_id, segment_id, led_idx,
                       <<color>>, r), r)

AddSetSegmentLeds ==
    /\ CanQueue
    /\ \E zone_id \in ZoneIds(controller), segment_id \in SegmentIds(controller),
          vec \in ColorVecs(MaxColors) :
         LET r == add_set_segment_leds(controller, colors, zone_id,
                                       segment_id, vec)
         IN Apply(Call("add_set_segment_leds", zone_id, segment_id, 0, vec, r), r)

\* execute takes the command by value: it runs at most once
Execute ==
    /\ phase = "open"
    /\ \E io \in IoOutcomes :
         LET r == execute(wire, controller, colors, io)
         IN /\ wire' = r.wire
            /\ last' = [NoCall EXCEPT !.op = "execute", !.res = r.err]
    /\ phase' = "executed"
    /\ pre' = colors
    /\ UNCHANGED <<controller, colors, cover, maxEnd, queued>>
    /\ UNCHANGED <<groupVars, sessionVars, callerVars, codecVars>>

Next ==
    \/ AddSetLed
    \/ AddSetLeds
    \/ AddSetZoneLed
    \/ AddSetZoneLeds
    \/ AddSetSegmentLed
    \/ AddSetSegmentLeds
    \/ Execute

Spec == Init /\ [][Next]_vars

TypeOK ==
    /\ controller \in Controllers
    /\ phase \in {"open", "executed"}
    /\ queued \in 0..MaxQueued
    /\ Len(cover) = maxEnd

(***************************************************************************)
(* Vocabulary of the properties.                                           *)
(***************************************************************************)
NumLeds == controller.num_leds
ValidZone(z) == z < Len(controller.zones)
ValidSegment(z, s) ==
    /\ ValidZone(z)
    /\ controller.zones[z + 1].segments # None
    /\ s < Len(controller.zones[z + 1].segments[1])

\* sum of the LED counts of the zones with index lower than z
ZoneStart(z) == SumLedsCount(SubSeq(controller.zones, 1, z))
ZoneSize(z) == controller.zones[z + 1].leds_count
SegStart(z, s) == controller.zones[z + 1].segments[1][s + 1].start_idx
SegSize(z, s) == controller.zones[z + 1].segments[1][s + 1].led_count

\* absolute LED index i (from 0) of a buffer
HasLed(buf, i) == i < Len(buf)
Led(buf, i) == buf[i + 1]

\* execute returned Ok: the packet is on the wire
SentOk == phase = "executed" /\ last.res = "Ok"
Sent == wire[Len(wire)].colors

QueuingOps ==
    {"add_set_led", "add_set_leds", "add_set_zone_led", "add_set_zone_leds",
     "add_set_segment_led", "add_set_segment_leds"}

\* every index outside [from, from + n) keeps its colour; an index outside
\* the range that the call created holds the default colour
FrameOutside(from, n) ==
    \A i \in 0..(Len(colors) - 1) :
        (i < from \/ i >= from + n) =>
            Led(colors, i) = IF HasLed(pre, i) THEN Led(pre, i) ELSE ColorDefault

(***************************************************************************)
(* C1  Last write wins.  Every buffer index that some queued update        *)
(* covered holds, in the buffer and in the colour list execute sent, the   *)
(* colour given by the last update, in call order, whose range covers it.  *)
(* The range of an update is the one add_command hands to set_colors.      *)
(***************************************************************************)
C1_LastWriteWins ==
    \A i \in 1..Len(cover) :
        cover[i].given # None =>
            /\ i <= Len(colors) /\ colors[i] = cover[i].given[1]
            /\ SentOk => (i <= Len(Sent) /\ Sent[i] = cover[i].given[1])

\* an index was given two different colours and the later one was sent
C1_Witness ==
    /\ SentOk
    /\ \E i \in 1..Len(cover) :
          cover[i].over /\ i <= Len(Sent) /\ Sent[i] = cover[i].given[1]

(***************************************************************************)
(* C2  Queuing writes nothing to the stream; execute writes at most one    *)
(* packet, and when it returns Ok exactly one: a header of kind            *)
(* update-leds (1050) for the command's controller id followed by the      *)
(* payload that carries the whole buffer, however many updates were queued.*)
(***************************************************************************)
C2_OnePacket ==
    /\ phase = "open" => wire = <<>>
    /\ Len(SelectSeq(wire, LAMBDA m : m.part = "header")) <= 1
    /\ Len(SelectSeq(wire, LAMBDA m : m.part = "payload")) <= 1
    /\ SentOk =>
          /\ Len(wire) = 2
          /\ wire[1].part = "header"
          /\ wire[1].packet_id = 1050
          /\ wire[1].device_id = controller.id
          /\ wire[2].part = "payload"
          /\ wire[2].colors = colors

\* several updates were queued and one packet went out
C2_Witness == SentOk /\ queued >= 2 /\ Len(wire) = 2

(***************************************************************************)
(* C3  As stated: when every queued update stays below num_leds, the list  *)
(* execute sends has exactly num_leds entries and every index no update    *)
(* covered is black.                                                       *)
(***************************************************************************)
C3_ExactlyNumLeds ==
    (SentOk /\ maxEnd <= NumLeds) =>
        /\ Len(Sent) = NumLeds
        /\ \A i \in 1..Len(Sent) :
              (i > Len(cover) \/ cover[i].given = None) =>
                  Sent[i] = ColorDefault

(***************************************************************************)
(* C3 amended.  The list execute sends has as many entries as the largest  *)
(* end (offset + number of colours) of any range a queued update wrote,    *)
(* none when nothing was queued, hence at most num_leds when every update  *)
(* stays below num_leds; every index of the list that no update covered    *)
(* is black.                                                               *)
(***************************************************************************)
C3_SentUpToLargestEnd ==
    SentOk =>
        /\ Len(Sent) = maxEnd
        /\ maxEnd <= NumLeds => Len(Sent) <= NumLeds
        /\ \A i \in 1..Len(Sent) :
              (i > Len(cover) \/ cover[i].given = None) =>
                  Sent[i] = ColorDefault

\* a list shorter than the device was sent, with an untouched black entry
C3_Witness ==
    /\ SentOk
    /\ 0 < Len(Sent) /\ Len(Sent) < NumLeds
    /\ \E i \in 1..Len(Sent) :
          cover[i].given = None /\ Sent[i] = ColorDefault

(***************************************************************************)
(* C4  Zone offset.  For a valid zone z, add_set_zone_led(z, k, C) puts C  *)
(* at absolute index ZoneStart(z) + k and add_set_zone_leds(z, colors)     *)
(* puts the colours it applies at ZoneStart(z), ZoneStart(z) + 1, ...;     *)
(* with an invalid zone index both return an error and change nothing.     *)
(***************************************************************************)
C4_ZoneOffset ==
    /\ (last.op = "add_set_zone_led" /\ ValidZone(last.zone_id)) =>
          /\ last.res = "Ok"
          /\ HasLed(colors, ZoneStart(last.zone_id) + last.led)
          /\ Led(colors, ZoneStart(last.zone_id) + last.led) = last.colors[1]
    /\ (last.op = "add_set_zone_leds" /\ ValidZone(last.zone_id)) =>
          /\ last.res = "Ok"
          /\ \A j \in 0..(Min(Len(last.colors), ZoneSize(last.zone_id)) - 1) :
                /\ HasLed(colors, ZoneStart(last.zone_id) + j)
                /\ Led(colors, ZoneStart(last.zone_id) + j) = last.colors[j + 1]
    /\ (last.op \in {"add_set_zone_led", "add_set_zone_leds"}
          /\ ~ValidZone(last.zone_id)) =>
          /\ last.res \notin {"Ok", "panic"}
          /\ colors = pre
          /\ wire = <<>>

\* a single LED of a zone other than zone 0 was written over an older colour
C4_Witness ==
    /\ last.op = "add_set_zone_led"
    /\ last.zone_id > 0 /\ ValidZone(last.zone_id)
    /\ ZoneStart(last.zone_id) > 0
    /\ last.led > 0
    /\ last.res = "Ok"
    /\ Len(pre) > 0

(***************************************************************************)
(* C5  Segment offset, single LED.  add_set_segment_led(z, s, k, C) puts C *)
(* at absolute index ZoneStart(z) + SegStart(z, s) + k, for every zone z.  *)
(***************************************************************************)
C5_SegmentLedOffset ==
    (last.op = "add_set_segment_led"
       /\ ValidSegment(last.zone_id, last.segment_id)) =>
        LET abs == ZoneStart(last.zone_id)
                   + SegStart(last.zone_id, last.segment_id) + last.led
        IN /\ last.res = "Ok"
           /\ HasLed(colors, abs)
           /\ Led(colors, abs) = last.colors[1]

(***************************************************************************)
(* C6  Segment offset, multiple LEDs.  add_set_segment_leds(z, s, colors)  *)
(* puts colors[j] at absolute index ZoneStart(z) + SegStart(z, s) + j.     *)
(***************************************************************************)
C6_SegmentLedsOffset ==
    (last.op = "add_set_segment_leds"
       /\ ValidSegment(last.zone_id, last.segment_id)) =>
        LET abs == ZoneStart(last.zone_id)
                   + SegStart(last.zone_id, last.segment_id)
        IN /\ last.res = "Ok"
           /\ \A j \in 0..(Len(last.colors) - 1) :
                 /\ HasLed(colors, abs + j)
                 /\ Led(colors, abs + j) = last.colors[j + 1]

\* colours were written to a segment that starts inside a zone other than
\* zone 0
C6_Witness ==
    /\ last.op = "add_set_segment_leds"
    /\ ValidSegment(last.zone_id, last.segment_id)
    /\ ZoneStart(last.zone_id) > 0
    /\ SegStart(last.zone_id, last.segment_id) > 0
    /\ Len(last.colors) >= 1
    /\ last.res = "Ok"

(***************************************************************************)
(* C7  Oversized whole-device update.  add_set_leds always returns Ok and  *)
(* drops the colours beyond num_leds: it never makes the buffer longer     *)
(* than num_leds entries.                                                  *)
(***************************************************************************)
C7_WholeDeviceTruncates ==
    last.op = "add_set_leds" =>
        /\ last.res = "Ok"
        /\ Len(colors) <= Max(Len(pre), NumLeds)
        /\ \A j \in 0..(Min(Len(last.colors), NumLeds) - 1) :
              HasLed(colors, j) /\ Led(colors, j) = last.colors[j + 1]

(***************************************************************************)
(* C8  Oversized zone update.  add_set_zone_leds(z, colors) with more      *)
(* colours than zone z has LEDs returns Ok, applies the first              *)
(* zone.num_leds() colours to the zone's range and leaves every index      *)
(* outside that range as it was: nothing past the zone is created, and an  *)
(* index before the zone that the call created is black.                   *)
(***************************************************************************)
C8_ZoneOversize ==
    (last.op = "add_set_zone_leds" /\ ValidZone(last.zone_id)
       /\ Len(last.colors) > ZoneSize(last.zone_id)) =>
        LET from == ZoneStart(last.zone_id)
            n == ZoneSize(last.zone_id)
        IN /\ last.res = "Ok"
           /\ \A j \in 0..(n - 1) :
                 HasLed(colors, from + j)
                 /\ Led(colors, from + j) = last.colors[j + 1]
           /\ Len(colors) = Max(Len(pre), from + n)
           /\ FrameOutside(from, n)

\* an oversized zone update ran over a buffer that already held, right after
\* the zone, a colour different from the extra colour supplied
C8_Witness ==
    /\ last.op = "add_set_zone_leds" /\ ValidZone(last.zone_id)
    /\ Len(last.colors) > ZoneSize(last.zone_id)
    /\ last.res = "Ok"
    /\ LET next == ZoneStart(last.zone_id) + ZoneSize(last.zone_id)
       IN /\ HasLed(pre, next)
          /\ Led(pre, next) # last.colors[ZoneSize(last.zone_id) + 1]
          /\ Led(colors, next) = Led(pre, next)

(***************************************************************************)
(* C9  Oversized segment update.  add_set_segment_leds(z, s, colors) with  *)
(* more colours than segment s has LEDs returns Ok, applies the first      *)
(* segment.num_leds() colours and leaves every index outside the segment's *)
(* range as it was.                                                        *)
(***************************************************************************)
C9_SegmentOversize ==
    (last.op = "add_set_segment_leds"
       /\ ValidSegment(last.zone_id, last.segment_id)
       /\ Len(last.colors) > SegSize(last.zone_id, last.segment_id)) =>
        LET from == ZoneStart(last.zone_id)
                    + SegStart(last.zone_id, last.segment_id)
            n == SegSize(last.zone_id, last.segment_id)
        IN /\ last.res = "Ok"
           /\ \A j \in 0..(n - 1) :
                 HasLed(colors, from + j)
                 /\ Led(colors, from + j) = last.colors[j + 1]
           /\ Len(colors) = Max(Len(pre), from + n)
           /\ FrameOutside(from, n)

(***************************************************************************)
(* C10  Buffer growth.  A queued update leaves every entry outside the     *)
(* range it writes unchanged and never shortens the buffer; when the range *)
(* ends past the buffer end the buffer grows to exactly the end of the     *)
(* range and the created entries outside the range are black.  No call     *)
(* indexes the buffer out of bounds.                                       *)
(***************************************************************************)
C10_BufferGrowth ==
    /\ last.res # "panic"
    /\ (last.op \in QueuingOps /\ last.res = "Ok") =>
          /\ Len(colors) >= Len(pre)
          /\ Len(colors) = Max(Len(pre), last.offset + Len(last.src))
          /\ FrameOutside(last.offset, Len(last.src))
          /\ \A j \in 0..(Len(last.src) - 1) :
                Led(colors, last.offset + j) = last.src[j + 1]

\* an update landed past the end of a non-empty buffer and left a black gap
C10_Witness ==
    /\ last.op \in QueuingOps /\ last.res = "Ok"
    /\ Len(pre) > 0
    /\ last.offset > Len(pre)
    /\ Len(last.src) > 0
    /\ Led(colors, Len(pre)) = ColorDefault
    /\ Len(colors) = last.offset + Len(last.src)

(***************************************************************************)
(* UpdateLedCommandGroup (client/command.rs) over a ControllerGroup        *)
(* (client/group.rs): one UpdateLedCommand per controller of the group,    *)
(* keyed by controller id, executed one after another.                     *)
(***************************************************************************)
\* largest controller id a caller addresses
MaxControllerId == 3
\* number of updates queued on one group command before it is executed
MaxGroupQueued == 2

\* DeviceType discriminants
Keyboard == 5
Mouse == 6

\* a ControllerData snapshot together with its device_type field
WithType(data, t) ==
    [f \in DOMAIN data \cup {"device_type"} |->
        IF f = "device_type" THEN t ELSE data[f]]

\* the devices the server reports, in id order
ServerControllers ==
    << WithType(ControllerData(0, << ZoneData(1, None) >>), Keyboard),
       WithType(ControllerData(1, << ZoneData(1, None) >>), Mouse),
       WithType(ControllerData(2, << ZoneData(2, Some(<<SegmentData(1, 1)>>)) >>),
                Keyboard) >>

\* OpenRgbClient::get_all_controllers: ControllerGroup::new of the
\* controllers fetched for id 0 .. count - 1, in that order
get_all_controllers == ServerControllers

\* ControllerGroup::split_per_type: one group per device type, each holding
\* the controllers of that type in their original order
split_per_type(g) ==
    [t \in {g[i].device_type : i \in DOMAIN g} |->
        SelectSeq(g, LAMBDA c : c.device_type = t)]

\* OpenRgbClient::get_controllers_of_type
get_controllers_of_type(t) == split_per_type(get_all_controllers)[t]

Groups ==
    {get_all_controllers}
        \cup {get_controllers_of_type(t) :
                t \in DOMAIN split_per_type(get_all_controllers)}

\* ControllerIndex: a usize or a controller handle
IndexById(n) == [kind |-> "usize", id |-> n]
IndexByHandle(c) == [kind |-> "handle", id |-> c.id]
ControllerIndexes ==
    {IndexById(n) : n \in 0..MaxControllerId}
        \cup {IndexByHandle(ServerControllers[i]) : i \in DOMAIN ServerControllers}

\* ControllerIndex::controller_id
controller_id(idx) == idx.id

\* ControllerIndex::index looking the controller up by its id
index_by_id(idx, g) ==
    LET hits == SelectSeq(g, LAMBDA c : c.id = controller_id(idx))
    IN IF hits # <<>> THEN OkVal(Head(hits)) ELSE ErrVal("CommandError")

\* ControllerIndex::index: group.controllers.get(self.controller_id())
index(idx, g) ==
    IF controller_id(idx) < Len(g)
    THEN OkVal(g[controller_id(idx) + 1])
    ELSE ErrVal("CommandError")

\* ControllerGroup::get_controller
get_controller(g, idx) == index(idx, g)

\* UpdateLedCommandGroup::new: c.id() -> UpdateLedCommand::new(c)
UpdateLedCommandGroup_new(g) ==
    [k \in {g[i].id : i \in DOMAIN g} |->
        LET c == CHOOSE c \in {g[i] : i \in DOMAIN g} : c.id = k
        IN [controller |-> c, colors |-> new_colors(c)]]

\* UpdateLedCommandGroup::get_controller_mut: the key of the command
get_controller_mut(g, cmds, idx) ==
    LET c == get_controller(g, idx)
    IN IF c.err # "Ok" THEN ErrVal(c.err)
       ELSE IF c.val.id \in DOMAIN cmds THEN OkVal(c.val.id)
       ELSE ErrVal("CommandError")

\* the UpdateLedCommand method an add_update_* method forwards to, with
\* its arguments
Forward(m, zone_id, segment_id, led, vec) ==
    [m |-> m, zone_id |-> zone_id, segment_id |-> segment_id, led |-> led,
     vec |-> vec]

forward(c, buf, u) ==
    CASE u.m = "add_set_led" -> add_set_led(c, buf, u.led, u.vec[1])
      [] u.m = "add_set_leds" -> add_set_leds(c, buf, u.vec)
      [] u.m = "add_set_zone_leds" -> add_set_zone_leds(c, buf, u.zone_id, u.vec)
      [] u.m = "add_set_zone_led" ->
            add_set_zone_led(c, buf, u.zone_id, u.led, u.vec[1])
      [] u.m = "add_set_segment_leds" ->
            add_set_segment_leds(c, buf, u.zone_id, u.segment_id, u.vec)

\* the shape shared by the add_update_* methods: get_controller_mut(..)?
\* and then the forwarded update on that controller's command
on_command(g, cmds, idx, u) ==
    LET k == get_controller_mut(g, cmds, idx)
    IN IF k.err # "Ok"
       THEN [err |-> k.err, commands |-> cmds, key |-> None, update |-> u]
       ELSE LET r == forward(cmds[k.val].controller, cmds[k.val].colors, u)
            IN [err |-> r.err,
                commands |-> [cmds EXCEPT ![k.val].colors = r.colors],
                key |-> Some(k.val), update |-> u]

\* UpdateLedCommandGroup::add_update_led
add_update_led(g, cmds, idx, led_id, color) ==
    on_command(g, cmds, idx, Forward("add_set_led", 0, 0, led_id, <<color>>))

\* UpdateLedCommandGroup::add_update_controller_leds
add_update_controller_leds(g, cmds, idx, vec) ==
    on_command(g, cmds, idx, Forward("add_set_leds", 0, 0, 0, vec))

\* UpdateLedCommandGroup::add_update_zone
add_update_zone(g, cmds, idx, zone_id, vec) ==
    on_command(g, cmds, idx, Forward("add_set_zone_leds", zone_id, 0, 0, vec))

\* UpdateLedCommandGroup::add_update_zone_led
add_update_zone_led(g, cmds, idx, zone_id, led_idx, color) ==
    on_command(g, cmds, idx,
               Forward("add_set_zone_led", zone_id, 0, led_idx, <<color>>))

\* UpdateLedCommandGroup::add_update_segment
add_update_segment(g, cmds, idx, zone_id, segment_id, vec) ==
    on_command(g, cmds, idx,
               Forward("add_set_segment_leds", zone_id, segment_id, 0, vec))

\* the same update as it lands when the controller is the one whose id()
\* equals the addressed id: None when the group holds no such controller
ById(g, bufs, idx, u) ==
    LET c == index_by_id(idx, g)
    IN IF c.err # "Ok" THEN None
       ELSE LET r == forward(c.val, bufs[c.val.id], u)
            IN Some([id |-> c.val.id, err |-> r.err, colors |-> r.colors])

GroupCall(op, idx, r, byid) ==
    [op |-> op, idx |-> idx, res |-> r.err, key |-> r.key, byId |-> byid]

GroupInit ==
    /\ group \in Groups
    /\ commands = UpdateLedCommandGroup_new(group)
    /\ pending = DOMAIN commands
    /\ gphase = "open"
    /\ gwire = <<>>
    /\ glast = [op |-> "new", idx |-> IndexById(0), res |-> "Ok",
                key |-> None, byId |-> None]
    /\ gpre = commands
    /\ addressed = [k \in DOMAIN commands |-> new_colors(commands[k].controller)]
    /\ gqueued = 0
    /\ LedParked
    /\ SessionParked
    /\ CallersParked
    /\ CodecParked

\* the buffers of the commands
Buffers(cmds) == [k \in DOMAIN cmds |-> cmds[k].colors]

\* the effect of one add_update_* call with outcome r
GroupApply(op, idx, r) ==
    /\ glast' = GroupCall(op, idx, r,
                          ById(group, Buffers(commands), idx, r.update))
    /\ gpre' = commands
    /\ commands' = r.commands
    /\ addressed' =
          LET byid == ById(group, addressed, idx, r.update)
          IN IF byid = None THEN addressed
             ELSE [addressed EXCEPT ![byid[1].id] = byid[1].colors]
    /\ gqueued' = gqueued + 1
    /\ UNCHANGED <<group, pending, gphase, gwire>>
    /\ UNCHANGED <<ledVars, sessionVars, callerVars, codecVars>>

CanQueueGroup == gphase = "open" /\ gqueued < MaxGroupQueued

AddUpdateLed ==
    /\ CanQueueGroup
    /\ \E idx \in ControllerIndexes, led_id \in 0..MaxLedIdx, color \in Palette :
         GroupApply("add_update_led", idx,
                    add_update_led(group, commands, idx, led_id, color))

AddUpdateControllerLeds ==
    /\ CanQueueGroup
    /\ \E idx \in ControllerIndexes, vec \in ColorVecs(MaxColors) :
         GroupApply("add_update_controller_leds", idx,
                    add_update_controller_leds(group, commands, idx, vec))

AddUpdateZone ==
    /\ CanQueueGroup
    /\ \E idx \in ControllerIndexes, zone_id \in 0..1,
          vec \in ColorVecs(MaxColors) :
         GroupApply("add_update_zone", idx,
                    add_update_zone(group, commands, idx, zone_id, vec))

AddUpdateZoneLed ==
    /\ CanQueueGroup
    /\ \E idx \in ControllerIndexes, zone_id \in 0..1,
          led_idx \in 0..MaxLedIdx, color \in Palette :
         GroupApply("add_update_zone_led", idx,
                    add_update_zone_led(group, commands, idx, zone_id,
                                        led_idx, color))

AddUpdateSegment ==
    /\ CanQueueGroup
    /\ \E idx \in ControllerIndexes, zone_id \in 0..1, segment_id \in 0..1,
          vec \in ColorVecs(MaxColors) :
         GroupApply("add_update_segment", idx,
                    add_update_segment(group, commands, idx, zone_id,
                                       segment_id, vec))

\* UpdateLedCommandGroup::execute, one turn of its loop: into_values yields
\* the commands in the map's own order, cmd.execute().await? writes the
\* packet of one command and a failure ends the loop
GroupExecute ==
    /\ gphase \in {"open", "executing"}
    /\ \E k \in pending, io \in IoOutcomes :
         LET r == execute(gwire, commands[k].controller, commands[k].colors, io)
         IN /\ gwire' = r.wire
            /\ pending' = pending \ {k}
            /\ gphase' = IF r.err # "Ok" THEN "failed"
                         ELSE IF pending = {k} THEN "done" ELSE "executing"
            /\ glast' = [op |-> "execute", idx |-> IndexById(k), res |-> r.err,
                         key |-> Some(k), byId |-> None]
    /\ gpre' = commands
    /\ UNCHANGED <<group, commands, addressed, gqueued>>
    /\ UNCHANGED <<ledVars, sessionVars, callerVars, codecVars>>

GroupNext ==
    \/ AddUpdateLed
    \/ AddUpdateControllerLeds
    \/ AddUpdateZone
    \/ AddUpdateZoneLed
    \/ AddUpdateSegment
    \/ GroupExecute

SpecGroup == GroupInit /\ [][GroupNext]_vars

GroupOps ==
    {"add_update_led", "add_update_controller_leds", "add_update_zone",
     "add_update_zone_led", "add_update_segment"}

\* the group holds a controller whose id() is n
HoldsId(n) == \E i \in DOMAIN group : group[i].id = n

\* the group's execute returned Ok: every command's packet is on the wire
GroupSentOk == gphase = "done"

\* the payloads written for controller id d
PayloadsFor(d) ==
    {i \in 2..Len(gwire) :
        /\ gwire[i].part = "payload"
        /\ gwire[i - 1].part = "header"
        /\ gwire[i - 1].device_id = d}

(***************************************************************************)
(* C11  An update addressed with controller id X (as a number or through   *)
(* a handle whose id is X) lands in the batch of the group's controller    *)
(* whose id() is X and leaves every other batch alone; when the group      *)
(* holds no controller with id X the call is a CommandError and no batch   *)
(* changes.                                                                *)
(***************************************************************************)
C11_AddressedById ==
    glast.op \in GroupOps =>
        LET X == controller_id(glast.idx)
        IN IF HoldsId(X)
           THEN /\ glast.byId # None
                /\ glast.res = glast.byId[1].err
                /\ commands = [gpre EXCEPT ![X].colors = glast.byId[1].colors]
           ELSE /\ glast.res = "CommandError"
                /\ commands = gpre

(***************************************************************************)
(* C12  Executing the group command writes nothing before execute, then    *)
(* whole update-leds packets one after another, at most one per controller *)
(* of the group and exactly one per controller when execute returns Ok;    *)
(* the packet of a controller carries the buffer accumulated from the      *)
(* updates addressed to that controller and nothing else.                  *)
(***************************************************************************)
C12_GroupExecute ==
    /\ gphase = "open" => gwire = <<>>
    /\ \A i \in 1..Len(gwire) :
          IF i % 2 = 1
          THEN /\ gwire[i].part = "header"
               /\ gwire[i].packet_id = 1050
               /\ HoldsId(gwire[i].device_id)
               /\ i < Len(gwire) \/ gphase = "failed"
          ELSE gwire[i].part = "payload"
    /\ \A d \in DOMAIN commands :
          /\ Cardinality(PayloadsFor(d)) <= 1
          /\ GroupSentOk => Cardinality(PayloadsFor(d)) = 1
          /\ \A i \in PayloadsFor(d) : gwire[i].colors = addressed[d]

(***************************************************************************)
(* The protocol session: OpenRgbProtocol (protocol/mod.rs) over a          *)
(* ProtocolStream (protocol/stream.rs), at the level of the bytes written  *)
(* to and read from the TCP stream.                                        *)
(***************************************************************************)
DEFAULT_PROTOCOL == 5
NO_DEVICE_ID == 0
MAGIC == <<79, 82, 71, 66>>

\* PacketId: the discriminants of the enum; PacketIds are the values
\* PacketId::try_from accepts
PacketId ==
    [RequestControllerCount |-> 0, RequestControllerData |-> 1,
     RequestProtocolVersion |-> 40, SetClientName |-> 50,
     DeviceListUpdated |-> 100, RequestDeviceRescan |-> 140,
     RequestProfileList |-> 150, RequestSaveProfile |-> 151,
     RequestLoadProfile |-> 152, RequestDeleteProfile |-> 153,
     RequestPluginList |-> 200, PluginSpecific |-> 201,
     RGBControllerResizeZone |-> 1000, RgbControllerClearSegments |-> 1001,
     RGBControllerAddSegment |-> 1002,
     RGBControllerUpdateLeds |-> RGBControllerUpdateLeds,
     RGBControllerUpdateZoneLeds |-> RGBControllerUpdateZoneLeds,
     RGBControllerUpdateSingleLed |-> 1052,
     RGBControllerSetCustomMode |-> 1100,
     RGBControllerUpdateMode |-> 1101, RGBControllerSaveMode |-> 1102]
PacketIds == {PacketId[k] : k \in DOMAIN PacketId}

\* the value of `let x = v; e`: Only({e : x \in {v}}) evaluates v once
Only(S) == CHOOSE x \in S : TRUE

\* u16::to_le_bytes / u32::to_le_bytes: n bytes, least significant first
to_le_bytes(v, n) == [i \in 1..n |-> (v \div (256 ^ (i - 1))) % 256]

\* u16::from_le_bytes / u32::from_le_bytes
RECURSIVE from_le_bytes(_)
from_le_bytes(b) ==
    IF b = <<>> THEN 0 ELSE Head(b) + 256 * from_le_bytes(Tail(b))

\* WriteMessage::write_u16, write_u32 onto an empty buffer
write_u16(v) == to_le_bytes(v, 2)
write_u32(v) == to_le_bytes(v, 4)

\* ReceivedMessage: the buffer, the read index and the protocol version
ReceivedMessage(buf, version) ==
    [buf |-> buf, idx |-> 0, protocol_version |-> version]

available_buf(m) == SubSeq(m.buf, m.idx + 1, Len(m.buf))

\* the outcome of a read on a ReceivedMessage
Read(e, v, m) == [err |-> e, val |-> v, msg |-> m]

\* ReceivedMessage::read_u16, read_u32
read_u16(m) ==
    IF Len(available_buf(m)) < 2 THEN Read("ProtocolError", 0, m)
    ELSE Read("Ok", from_le_bytes(SubSeq(available_buf(m), 1, 2)),
              [m EXCEPT !.idx = @ + 2])

read_u32(m) ==
    IF Len(available_buf(m)) < 4 THEN Read("ProtocolError", 0, m)
    ELSE Read("Ok", from_le_bytes(SubSeq(available_buf(m), 1, 4)),
              [m EXCEPT !.idx = @ + 4])

\* std::io::Read::read_exact on a ReceivedMessage: a short buffer is an
\* io::Error (UnexpectedEof), which ? turns into CommunicationError
msg_read_exact(m, n) ==
    IF Len(available_buf(m)) < n
    THEN Read("CommunicationError", <<>>, [m EXCEPT !.idx = Len(m.buf)])
    ELSE Read("Ok", SubSeq(available_buf(m), 1, n), [m EXCEPT !.idx = @ + n])

\* String::from_utf8 on the bytes of the model: 0 .. 127 are one-byte
\* characters, 255 never occurs in UTF-8
from_utf8(bytes) ==
    IF \A i \in 1..Len(bytes) : bytes[i] < 128
    THEN OkVal(bytes) ELSE ErrVal("ProtocolError")

\* <String as DeserFromBuf>::deserialize
deserialize_String(m) ==
    LET len == read_u16(m)
    IN IF len.err # "Ok" THEN Read(len.err, <<>>, len.msg)
       ELSE LET bytes == msg_read_exact(len.msg, len.val)
            IN IF bytes.err # "Ok" THEN Read(bytes.err, <<>>, bytes.msg)
               ELSE LET popped == SubSeq(bytes.val, 1, Len(bytes.val) - 1)
                        str == from_utf8(popped)
                    IN IF str.err # "Ok" THEN Read(str.err, <<>>, bytes.msg)
                       ELSE Read("Ok", str.val, bytes.msg)

\* ReceivedMessage::read_u8
read_u8(m) ==
    IF Len(available_buf(m)) < 1 THEN Read("ProtocolError", 0, m)
    ELSE Read("Ok", available_buf(m)[1], [m EXCEPT !.idx = @ + 1])

\* read that moves the index by the length asked for
msg_read_unbounded(m, n) ==
    Read("Ok", SubSeq(available_buf(m), 1, Min(n, Len(available_buf(m)))),
         [m EXCEPT !.idx = @ + n])

\* <ReceivedMessage as std::io::Read>::read into a buffer of n bytes
msg_read(m, n) ==
    LET len == Min(n, Len(available_buf(m)))
    IN Read("Ok", SubSeq(available_buf(m), 1, len), [m EXCEPT !.idx = @ + len])

\* `as i32` of the u32 held in four little-endian bytes and the bytes of
\* `as u32` of an i32 (two's complement)
u32_as_i32(b) ==
    IF b[4] < 128 THEN from_le_bytes(b)
    ELSE (from_le_bytes([b EXCEPT ![4] = @ - 128]) - 2147483647) - 1

i32_as_u32(v) ==
    IF v >= 0 THEN to_le_bytes(v, 4)
    ELSE [to_le_bytes((v + 2147483647) + 1, 4) EXCEPT ![4] = @ + 128]

\* <i32 as DeserFromBuf>::deserialize: read_u32()? as i32
read_i32(m) ==
    IF Len(available_buf(m)) < 4 THEN Read("ProtocolError", 0, m)
    ELSE Read("Ok", u32_as_i32(SubSeq(available_buf(m), 1, 4)),
              [m EXCEPT !.idx = @ + 4])

\* the arms of impl_enum_discriminant! for each enum, in source order
Discriminants ==
    [DeviceType |->
        << <<"Motherboard", 0>>, <<"DRam", 1>>, <<"Gpu", 2>>, <<"Cooler", 3>>,
           <<"LEDStrip", 4>>, <<"Keyboard", 5>>, <<"Mouse", 6>>,
           <<"MouseMat", 7>>, <<"Headset", 8>>, <<"HeadsetStand", 9>>,
           <<"Gamepad", 10>>, <<"Light", 11>>, <<"Speaker", 12>>,
           <<"Virtual", 13>>, <<"Unknown", 14>> >>,
     ZoneType |-> << <<"Single", 0>>, <<"Linear", 1>>, <<"Matrix", 2>> >>,
     ColorMode |->
        << <<"None", 0>>, <<"PerLED", 1>>, <<"ModeSpecific", 2>>,
           <<"Random", 3>> >>,
     Direction |->
        << <<"Left", 0>>, <<"Right", 1>>, <<"Up", 2>>, <<"Down", 3>>,
           <<"Horizontal", 4>>, <<"Vertical", 5>> >>,
     PacketId |->
        << <<"RequestControllerCount", 0>>, <<"RequestControllerData", 1>>,
           <<"RequestProtocolVersion", 40>>, <<"SetClientName", 50>>,
           <<"DeviceListUpdated", 100>>, <<"RequestDeviceRescan", 140>>,
           <<"RequestProfileList", 150>>, <<"RequestSaveProfile", 151>>,
           <<"RequestLoadProfile", 152>>, <<"RequestDeleteProfile", 153>>,
           <<"RequestPluginList", 200>>, <<"PluginSpecific", 201>>,
           <<"RGBControllerResizeZone", 1000>>,
           <<"RgbControllerClearSegments", 1001>>,
           <<"RGBControllerAddSegment", 1002>>,
           <<"RGBControllerUpdateLeds", 1050>>,
           <<"RGBControllerUpdateZoneLeds", 1051>>,
           <<"RGBControllerUpdateSingleLed", 1052>>,
           <<"RGBControllerSetCustomMode", 1100>>,
           <<"RGBControllerUpdateMode", 1101>>,
           <<"RGBControllerSaveMode", 1102>> >>]

Variants(enum) ==
    {Discriminants[enum][i][1] : i \in DOMAIN Discriminants[enum]}

\* the enum accepts every discriminant
try_from_any(enum, value) ==
    [err |-> "Ok",
     val |-> Discriminants[enum][
                 IF \E i \in DOMAIN Discriminants[enum] :
                        Discriminants[enum][i][2] = value
                 THEN CHOOSE i \in DOMAIN Discriminants[enum] :
                        Discriminants[enum][i][2] = value
                 ELSE 1][1],
     msg |-> <<>>]

\* TryFrom<u32> for the enum: the first arm that matches, or the
\* ProtocolError "Unknown discriminant value {value} for {enum}"
try_from(enum, value) ==
    LET arms == Discriminants[enum]
        hits == {i \in DOMAIN arms : arms[i][2] = value}
    IN IF hits = {}
       THEN [err |-> "ProtocolError", val |-> "",
             msg |-> <<"Unknown discriminant value", value, "for", enum>>]
       ELSE [err |-> "Ok",
             val |-> arms[CHOOSE i \in hits : \A j \in hits : i <= j][1],
             msg |-> <<>>]

\* From<&enum> for u32: the arm of the variant
u32_from(enum, variant) ==
    LET arms == Discriminants[enum]
    IN arms[CHOOSE i \in DOMAIN arms :
                /\ arms[i][1] = variant
                /\ \A j \in DOMAIN arms : arms[j][1] = variant => i <= j][2]

\* the flags! enums: ModeFlag and ZoneFlags with their bits
Flags ==
    [ModeFlag |->
        [HasSpeed |-> 1, HasDirectionLR |-> 2, HasDirectionUD |-> 4,
         HasDirectionHV |-> 8, HasDirection |-> 14, HasBrightness |-> 16,
         HasPerLEDColor |-> 32, HasModeSpecificColor |-> 64,
         HasRandomColor |-> 128, ManualSave |-> 256, AutomaticSave |-> 512],
     ZoneFlags |-> [ResizableForEffectsOnly |-> 1],
     ControllerFlags |->
        [IsLocal |-> 1, IsRemote |-> 2, IsVirtual |-> 4,
         ResetBeforeUpdate |-> 256]]

\* bit i of n, and the bitwise and of two numbers
Bit(n, i) == (n \div (2 ^ i)) % 2

RECURSIVE BitAnd(_, _)
BitAnd(a, b) ==
    IF a = 0 \/ b = 0 THEN 0
    ELSE (a % 2) * (b % 2) + 2 * BitAnd(a \div 2, b \div 2)

\* FlagSet::full: the bits of all the flags of F
full(F) ==
    CHOOSE n \in 0..1023 :
        \A i \in 0..9 :
            Bit(n, i) = 1 <=> \E f \in DOMAIN Flags[F] : Bit(Flags[F][f], i) = 1

\* FlagSet::new: the bits are kept when all of them belong to a flag
FlagSet_new(F, bits) ==
    IF BitAnd(bits, full(F)) = bits THEN OkVal(bits)
    ELSE ErrVal("ProtocolError")

\* FlagSet::contains: every bit of rhs is set
contains(set, rhs) == BitAnd(set, rhs) = rhs

\* a ProtocolOption that no version leaves out
unsupported_version_never(version, VER) == FALSE

\* a ProtocolOption that is still left out at its minimum version
unsupported_version_at_min(version, VER) == version <= VER

\* ProtocolOption<VER, T>: buf.protocol_version() < VER
unsupported_version(version, VER) == version < VER

\* ModeData::direction: flags.contains(ModeFlag::HasDirection)
\*                          .then_some(self.direction)
direction(mode) ==
    IF contains(mode.flags, Flags.ModeFlag.HasDirection)
    THEN Some(mode.direction) ELSE None

\* the fields ModeData::deserialize reads, in order, with their types
ModeDataWire ==
    << <<"name", <<"String">> >>, <<"value", <<"i32">> >>,
       <<"flags", <<"Flags", "ModeFlag">> >>,
       <<"speed_min", <<"u32">> >>, <<"speed_max", <<"u32">> >>,
       <<"brightness_min", <<"Option", 3, <<"u32">> >> >>,
       <<"brightness_max", <<"Option", 3, <<"u32">> >> >>,
       <<"brightness", <<"Option", 3, <<"u32">> >> >>,
       <<"colors_min", <<"u32">> >>, <<"colors_max", <<"u32">> >>,
       <<"speed", <<"u32">> >>,
       <<"direction", <<"Enum", "Direction">> >>,
       <<"color_mode", <<"Enum", "ColorMode">> >>,
       <<"colors", <<"Vec", <<"Color">> >> >> >>

\* the position of a field in ModeDataWire
WireIndex(f) == CHOOSE i \in DOMAIN ModeDataWire : ModeDataWire[i][1] = f

\* for (idx, x) in xs.iter_mut().enumerate() { x.set_id(idx) }: every
\* element gets its position in the list as its id
\* the loop counting from one
enumerate_set_id_from_one(xs) == [i \in 1..Len(xs) |-> [xs[i] EXCEPT !.id = i]]
enumerate_set_id(xs) == [i \in 1..Len(xs) |-> [xs[i] EXCEPT !.id = i - 1]]

\* num_leds += zone.leds_count as usize, over the zones
RECURSIVE sum_leds_count(_)
sum_leds_count(zones) ==
    IF zones = <<>> THEN 0
    ELSE Head(zones).leds_count + sum_leds_count(Tail(zones))

\* ProtocolOption::value_mut applied with the loop that numbers segments
number_segments(segments) ==
    IF segments = None THEN None ELSE Some(enumerate_set_id(segments[1]))

\* the fields ControllerData::deserialize reads before the modes
ControllerDataHead ==
    << <<"u32">>, <<"Enum", "DeviceType">>, <<"String">>, <<"String">>,
       <<"String">>, <<"String">>, <<"String">>, <<"String">>, <<"u16">>,
       <<"i32">> >>

\* and after them
ControllerDataTail ==
    << <<"Vec", <<"ZoneData">> >>, <<"Vec", <<"Led">> >>,
       <<"Vec", <<"Color">> >>, <<"Option", 5, <<"Vec", <<"String">> >> >>,
       <<"Option", 5, <<"Flags", "ControllerFlags">> >> >>

\* DeserFromBuf::deserialize for the type t and the values of a sequence
\* of types read one after another.  Types: <<"unit">>, <<"u8">>,
\* <<"u16">>, <<"u32">>, <<"i32">>, <<"Color">>, <<"String">>,
\* <<"Vec", T>>, <<"Array", N, T>>, <<"Tuple", <<T1, ..>>>>,
\* <<"Enum", name>>, <<"Flags", name>>, <<"Option", V, T>> for
\* ProtocolOption<V, T>, <<"ModeData">>, and <<"PluginData">> (name,
\* description, version, index, plugin_protocol_version).
RECURSIVE deserialize(_, _), read_values(_, _)
deserialize(t, m) ==
    CASE t[1] = "unit" -> Read("Ok", <<>>, m)
      [] t[1] = "u8" -> read_u8(m)
      [] t[1] = "u16" -> read_u16(m)
      [] t[1] = "u32" -> read_u32(m)
      [] t[1] = "i32" -> read_i32(m)
      [] t[1] = "Color" ->
            LET rgba == read_values(<< <<"u8">>, <<"u8">>, <<"u8">>,
                                       <<"u8">> >>, m)
            IN IF rgba.err # "Ok" THEN rgba
               ELSE Read("Ok", SubSeq(rgba.val, 1, 3), rgba.msg)
      [] t[1] = "String" -> deserialize_String(m)
      [] t[1] = "Vec" ->
            LET len == read_u16(m)
            IN IF len.err # "Ok" THEN Read(len.err, <<>>, len.msg)
               ELSE read_values([i \in 1..len.val |-> t[2]], len.msg)
      [] t[1] = "Array" -> read_values([i \in 1..t[2] |-> t[3]], m)
      [] t[1] = "Tuple" -> read_values(t[2], m)
      [] t[1] = "Enum" ->
            LET raw == read_u32(m)
            IN IF raw.err # "Ok" THEN Read(raw.err, <<>>, raw.msg)
               ELSE Read(try_from(t[2], raw.val).err,
                         try_from(t[2], raw.val).val, raw.msg)
      [] t[1] = "Flags" ->
            LET value == read_u32(m)
            IN IF value.err # "Ok" THEN Read(value.err, <<>>, value.msg)
               ELSE Read(FlagSet_new(t[2], value.val).err,
                         FlagSet_new(t[2], value.val).val, value.msg)
      [] t[1] = "Option" ->
            IF unsupported_version(m.protocol_version, t[2])
            THEN Read("Ok", None, m)
            ELSE LET val == deserialize(t[3], m)
                 IN IF val.err # "Ok" THEN Read(val.err, <<>>, val.msg)
                    ELSE Read("Ok", Some(val.val), val.msg)
      [] t[1] = "ModeData" ->
            LET fields == read_values([i \in DOMAIN ModeDataWire |->
                                          ModeDataWire[i][2]], m)
            IN IF fields.err # "Ok" THEN fields
               ELSE Read("Ok",
                         [f \in {ModeDataWire[i][1] : i \in DOMAIN ModeDataWire}
                                   \cup {"id"} |->
                             IF f = "id" THEN "u32::MAX"
                             ELSE fields.val[WireIndex(f)]],
                         fields.msg)
      [] t[1] = "SegmentData" ->
            IF m.protocol_version < 4 THEN Read("ProtocolError", <<>>, m)
            ELSE LET f == read_values(<< <<"String">>, <<"Enum", "ZoneType">>,
                                         <<"u32">>, <<"u32">> >>, m)
                 IN IF f.err # "Ok" THEN f
                    ELSE Read("Ok",
                              [name |-> f.val[1], seg_type |-> f.val[2],
                               start_idx |-> f.val[3], led_count |-> f.val[4],
                               id |-> "usize::MAX"], f.msg)
      [] t[1] = "Matrix" ->
            LET matrix_len == read_u16(m)
            IN IF matrix_len.err # "Ok"
               THEN Read(matrix_len.err, <<>>, matrix_len.msg)
               ELSE IF matrix_len.val = 0 THEN Read("Ok", None, matrix_len.msg)
               ELSE LET dims == read_values(<< <<"u32">>, <<"u32">> >>,
                                            matrix_len.msg)
                    IN IF dims.err # "Ok" THEN dims
                       ELSE LET matrix_data ==
                                    read_values(
                                        [i \in 1..(dims.val[1] * dims.val[2])
                                            |-> <<"u32">>], dims.msg)
                            IN IF matrix_data.err # "Ok" THEN matrix_data
                               ELSE Read("Ok",
                                         Some([height |-> dims.val[1],
                                               width |-> dims.val[2],
                                               data |-> matrix_data.val]),
                                         matrix_data.msg)
      [] t[1] = "ZoneData" ->
            LET f == read_values(<< <<"String">>, <<"Enum", "ZoneType">>,
                                    <<"u32">>, <<"u32">>, <<"u32">>,
                                    <<"Matrix">>,
                                    <<"Option", 4, <<"Vec", <<"SegmentData">> >> >>,
                                    <<"Option", 5, <<"Flags", "ZoneFlags">> >> >>,
                                 m)
            IN IF f.err # "Ok" THEN f
               ELSE Read("Ok",
                         [id |-> "usize::MAX", name |-> f.val[1],
                          zone_type |-> f.val[2], leds_min |-> f.val[3],
                          leds_max |-> f.val[4], leds_count |-> f.val[5],
                          matrix |-> f.val[6],
                          segments |-> number_segments(f.val[7]),
                          flags |-> f.val[8]], f.msg)
      [] t[1] = "Led" ->
            LET f == read_values(<< <<"String">>, <<"u32">> >>, m)
            IN IF f.err # "Ok" THEN f
               ELSE Read("Ok", [name |-> f.val[1], value |-> f.val[2]], f.msg)
      [] t[1] = "ControllerData" ->
            LET h == read_values(ControllerDataHead, m)
            IN IF h.err # "Ok" THEN h
               ELSE LET f == read_values(
                                 << <<"Array", h.val[9], <<"ModeData">> >> >>
                                    \o ControllerDataTail, h.msg)
                    IN IF f.err # "Ok" THEN f
                       ELSE Read("Ok",
                                 [device_type |-> h.val[2], name |-> h.val[3],
                                  vendor |-> h.val[4],
                                  description |-> h.val[5],
                                  version |-> h.val[6], serial |-> h.val[7],
                                  location |-> h.val[8],
                                  active_mode |-> h.val[10],
                                  modes |-> enumerate_set_id(f.val[1]),
                                  zones |-> enumerate_set_id(f.val[2]),
                                  leds |-> f.val[3], colors |-> f.val[4],
                                  led_alt_names |-> f.val[5],
                                  flags |-> f.val[6], id |-> "u32::MAX",
                                  num_leds |-> sum_leds_count(f.val[2])],
                                 f.msg)
      [] t[1] = "PluginData" ->
            read_values(<< <<"String">>, <<"String">>, <<"String">>,
                           <<"u32">>, <<"u32">> >>, m)

read_values(ts, m) ==
    IF ts = <<>> THEN Read("Ok", <<>>, m)
    ELSE LET first == deserialize(Head(ts), m)
         IN IF first.err # "Ok" THEN Read(first.err, <<>>, first.msg)
            ELSE LET rest == read_values(Tail(ts), first.msg)
                 IN IF rest.err # "Ok" THEN rest
                    ELSE Read("Ok", <<first.val>> \o rest.val, rest.msg)

\* the state of a ProtocolStream: its version, the chunks written to the
\* socket (one per write_all) and the bytes received and not yet read
ProtocolStream(version) ==
    [protocol_version |-> version, tx |-> <<>>, rx |-> <<>>]

\* AsyncReadExt::read_exact on the socket: the bytes read and the bytes
\* left; when the peer closed before n bytes came the read is an io::Error
\* and what had arrived is gone
read_exact(rx, n) ==
    IF Len(rx) < n
    THEN [err |-> "CommunicationError", data |-> <<>>, rest |-> <<>>]
    ELSE [err |-> "Ok", data |-> SubSeq(rx, 1, n),
          rest |-> SubSeq(rx, n + 1, Len(rx))]

Header(device_id, packet_id, packet_size) ==
    [device_id |-> device_id, packet_id |-> packet_id,
     packet_size |-> packet_size]
NoHeader == Header(0, 0, 0)

\* OpenRgbMessageHeader::write: the 16 bytes of a header
header_bytes(h) ==
    MAGIC \o write_u32(h.device_id) \o write_u32(h.packet_id)
          \o write_u32(h.packet_size)

\* OpenRgbMessageHeader::read without the comparison of the magic value
header_read_any_magic(rx) ==
    Only({ LET recv == ReceivedMessage(rd.data, 0)
               device_id == read_u32([recv EXCEPT !.idx = 4])
               raw == read_u32([recv EXCEPT !.idx = 8])
               packet_size == read_u32([recv EXCEPT !.idx = 12])
           IN IF rd.err # "Ok"
              THEN [err |-> rd.err, header |-> NoHeader, rest |-> rd.rest]
              ELSE IF raw.val \notin PacketIds
              THEN [err |-> "ProtocolError", header |-> NoHeader,
                    rest |-> rd.rest]
              ELSE [err |-> "Ok",
                    header |-> Header(device_id.val, raw.val, packet_size.val),
                    rest |-> rd.rest]
         : rd \in {read_exact(rx, 16)} })

\* OpenRgbMessageHeader::read: 16 bytes off the socket, then the magic
\* value (bytes 0..4), device_id, packet_id and packet_size (u32 at 4, 8
\* and 12) out of them
header_read(rx) ==
    Only({ LET recv == ReceivedMessage(rd.data, 0)
               magic == msg_read_exact(recv, 4)
               device_id == read_u32([recv EXCEPT !.idx = 4])
               raw == read_u32([recv EXCEPT !.idx = 8])
               packet_size == read_u32([recv EXCEPT !.idx = 12])
           IN IF rd.err # "Ok"
              THEN [err |-> rd.err, header |-> NoHeader, rest |-> rd.rest]
              ELSE IF magic.val # MAGIC
              THEN [err |-> "ProtocolError", header |-> NoHeader,
                    rest |-> rd.rest]
              ELSE IF raw.val \notin PacketIds
              THEN [err |-> "ProtocolError", header |-> NoHeader,
                    rest |-> rd.rest]
              ELSE [err |-> "Ok",
                    header |-> Header(device_id.val, raw.val, packet_size.val),
                    rest |-> rd.rest]
         : rd \in {read_exact(rx, 16)} })

\* read_header that accepts a header for any device
read_header_any_device(rx, device_id, packet_id) ==
    Only({ IF h.err # "Ok" THEN h
           ELSE IF h.header.packet_id # packet_id
           THEN [h EXCEPT !.err = "ProtocolError"]
           ELSE h
         : h \in {header_read(rx)} })

\* ProtocolStream::read_header
read_header(rx, device_id, packet_id) ==
    Only({ IF h.err # "Ok" THEN h
           ELSE IF h.header.packet_id # packet_id
           THEN [h EXCEPT !.err = "ProtocolError"]
           ELSE IF h.header.device_id # device_id
           THEN [h EXCEPT !.err = "ProtocolError"]
           ELSE h
         : h \in {header_read(rx)} })

\* what a read_packet did: its result, the bytes left on the socket, the
\* header it accepted, whether the decoder ran and how many payload bytes
\* the decoder used
Received(e, v, rest, accepted, h, decoded, used) ==
    [err |-> e, val |-> v, rest |-> rest, accepted |-> accepted,
     header |-> h, decoded |-> decoded, used |-> used]
NoRead == Received("none", <<>>, <<>>, FALSE, NoHeader, FALSE, 0)

\* read_packet whose decoder reads from the socket: the bytes the decoder
\* did not use stay on the socket
read_packet_streaming(st, device_id, packet_id, t) ==
    Only({ LET body == read_exact(h.rest, h.header.packet_size)
               d == deserialize(t, ReceivedMessage(body.data,
                                                   st.protocol_version))
           IN IF h.err # "Ok"
              THEN Received(h.err, <<>>, h.rest, FALSE, NoHeader, FALSE, 0)
              ELSE IF body.err # "Ok"
              THEN Received(body.err, <<>>, body.rest, TRUE, h.header, FALSE, 0)
              ELSE Received(d.err, d.val,
                            SubSeq(h.rest, d.msg.idx + 1, Len(h.rest)),
                            TRUE, h.header, TRUE, d.msg.idx)
         : h \in {read_header(st.rx, device_id, packet_id)} })

\* ProtocolStream::read_packet: the header, then exactly packet_size bytes
\* into a buffer, then the decoder on that buffer
read_packet(st, device_id, packet_id, t) ==
    Only({ LET body == read_exact(h.rest, h.header.packet_size)
               d == deserialize(t, ReceivedMessage(body.data,
                                                   st.protocol_version))
           IN IF h.err # "Ok"
              THEN Received(h.err, <<>>, h.rest, FALSE, NoHeader, FALSE, 0)
              ELSE IF body.err # "Ok"
              THEN Received(body.err, <<>>, body.rest, TRUE, h.header, FALSE, 0)
              ELSE Received(d.err, d.val, body.rest, TRUE, h.header, TRUE,
                            d.msg.idx)
         : h \in {read_header(st.rx, device_id, packet_id)} })

\* write_packet that writes the header before it serializes the payload
stream_write_packet_header_first(st, device_id, packet_id, ser, io) ==
    LET size == IF ser.err # "Ok" THEN 0 ELSE Len(ser.val)
        header == [part |-> "header",
                   bytes |-> header_bytes(Header(device_id, packet_id, size))]
    IN IF io = "header" THEN [err |-> "CommunicationError", st |-> st]
       ELSE IF ser.err # "Ok"
       THEN [err |-> ser.err, st |-> [st EXCEPT !.tx = Append(@, header)]]
       ELSE IF io = "payload"
       THEN [err |-> "CommunicationError",
             st |-> [st EXCEPT !.tx = Append(@, header)]]
       ELSE [err |-> "Ok",
             st |-> [st EXCEPT !.tx = @ \o <<header, [part |-> "payload",
                                                      bytes |-> ser.val]>>]]
\* ProtocolStream::write_packet: serialize, write the header, write the
\* payload.  ser is the outcome of data.serialize(&mut buf); io names the
\* write_all call that fails, if any.
stream_write_packet(st, device_id, packet_id, ser, io) ==
    IF ser.err # "Ok" THEN [err |-> ser.err, st |-> st]
    ELSE LET header == [part |-> "header",
                        bytes |-> header_bytes(Header(device_id, packet_id,
                                                      Len(ser.val)))]
             payload == [part |-> "payload", bytes |-> ser.val]
         IN IF io = "header" THEN [err |-> "CommunicationError", st |-> st]
            ELSE IF io = "payload"
            THEN [err |-> "CommunicationError",
                  st |-> [st EXCEPT !.tx = Append(@, header)]]
            ELSE [err |-> "Ok",
                  st |-> [st EXCEPT !.tx = @ \o <<header, payload>>]]

\* request that goes on to read a response after its write failed
stream_request_reading_on(st, device_id, packet_id, ser, io, arrive, t) ==
    Only({ Only({ [err |-> IF w.err # "Ok" THEN w.err ELSE r.err,
                   val |-> r.val,
                   st |-> [w.st EXCEPT !.rx = r.rest], wrote |-> w.err = "Ok",
                   seen |-> w.st.rx \o arrive, read |-> r]
                : r \in {read_packet([w.st EXCEPT !.rx = @ \o arrive],
                                     device_id, packet_id, t)} })
         : w \in {stream_write_packet(st, device_id, packet_id, ser, io)} })
\* ProtocolStream::request: write_packet(..)? and then read_packet.
\* arrive is what the server sends once it has the request.
stream_request(st, device_id, packet_id, ser, io, arrive, t) ==
    Only({ IF w.err # "Ok"
           THEN [err |-> w.err, val |-> <<>>, st |-> w.st, wrote |-> FALSE,
                 seen |-> w.st.rx,
                 read |-> Received(w.err, <<>>, w.st.rx, FALSE, NoHeader,
                                   FALSE, 0)]
           ELSE Only({ [err |-> r.err, val |-> r.val,
                        st |-> [w.st EXCEPT !.rx = r.rest], wrote |-> TRUE,
                        seen |-> w.st.rx \o arrive, read |-> r]
                     : r \in {read_packet([w.st EXCEPT !.rx = @ \o arrive],
                                          device_id, packet_id, t)} })
         : w \in {stream_write_packet(st, device_id, packet_id, ser, io)} })

\* largest maximum protocol version a server reports
MaxServerVersion == 6
\* number of calls made on a session after it connected
MaxSessionOps == 1

\* ProtocolStream::set_protocol_version
set_protocol_version(st, version) == [st EXCEPT !.protocol_version = version]

\* the session keeps the server's version whatever the client supports
negotiate_server(req_protocol) == req_protocol

\* OpenRgbProtocol::new: DEFAULT_PROTOCOL.min(req_protocol)
negotiate(req_protocol) == Min(DEFAULT_PROTOCOL, req_protocol)

\* what a call on the session did: its result, the session afterwards, the
\* versions an UnsupportedOperation carries, the packet it addressed,
\* whether the packet was written whole, the bytes on the socket when the
\* response was read, and the read itself
Called(e, v, p, current, min, device_id, packet_id, wrote, seen, read) ==
    [err |-> e, val |-> v, p |-> p, current |-> current, min |-> min,
     device_id |-> device_id, packet_id |-> packet_id, wrote |-> wrote,
     seen |-> seen, read |-> read]

\* a call that returned before it touched the stream
Refused(e, p, current, min) ==
    Called(e, <<>>, p, current, min, 0, 0, FALSE, <<>>, NoRead)

\* OpenRgbProtocol::new
OpenRgbProtocol_new(stream, io, arrive) ==
    Only({ IF r.err # "Ok"
           THEN Called(r.err, <<>>,
                       [protocol_id |-> 0, stream |-> r.st, locks |-> 0], 0, 0,
                       NO_DEVICE_ID, PacketId.RequestProtocolVersion,
                       r.wrote, r.seen, r.read)
           ELSE Called("Ok", negotiate(r.val),
                       [protocol_id |-> negotiate(r.val),
                        stream |-> set_protocol_version(r.st, negotiate(r.val)),
                        locks |-> 0], 0, 0,
                       NO_DEVICE_ID, PacketId.RequestProtocolVersion,
                       r.wrote, r.seen, r.read)
         : r \in {stream_request(stream, NO_DEVICE_ID,
                                 PacketId.RequestProtocolVersion,
                                 OkVal(write_u32(DEFAULT_PROTOCOL)), io,
                                 arrive, <<"u32">>)} })

\* OpenRgbProtocol::get_protocol_version
get_protocol_version(p) == p.protocol_id

\* OpenRgbProtocol::write_packet: lock the stream, write the packet
proto_write_packet(p, device_id, packet_id, ser, io) ==
    Only({ Called(w.err, <<>>, [p EXCEPT !.stream = w.st, !.locks = @ + 1],
                  0, 0, device_id, packet_id, w.err = "Ok", <<>>, NoRead)
         : w \in {stream_write_packet(p.stream, device_id, packet_id, ser,
                                      io)} })

\* OpenRgbProtocol::request: lock the stream, write and read
proto_request(p, device_id, packet_id, ser, io, arrive, t) ==
    Only({ Called(r.err, r.val, [p EXCEPT !.stream = r.st, !.locks = @ + 1],
                  0, 0, device_id, packet_id, r.wrote, r.seen, r.read)
         : r \in {stream_request(p.stream, device_id, packet_id, ser, io,
                                 arrive, t)} })

\* a check that lets every call through
check_protocol_version_open(p, min) ==
    [err |-> "Ok", current |-> p.protocol_id, min |-> min]

\* OpenRgbProtocol::check_protocol_version
check_protocol_version(p, min) ==
    IF p.protocol_id < min
    THEN [err |-> "UnsupportedOperation", current |-> p.protocol_id,
          min |-> min]
    ELSE [err |-> "Ok", current |-> p.protocol_id, min |-> min]

\* <&str as SerToBuf>::serialize and RawString: the bytes of a string with
\* its terminator, with and without the u16 length in front
\* RawString that leaves out the terminator
serialize_RawString_unterminated(bytes) == OkVal(bytes)
serialize_RawString(bytes) == OkVal(bytes \o <<0>>)
serialize_str(bytes) ==
    OkVal(write_u16(Len(bytes) + 1) \o serialize_RawString(bytes).val)

\* OpenRgbPacket whose length leaves out the length field itself
packet_serialize_content_only(contents) ==
    IF contents.err # "Ok" THEN contents
    ELSE OkVal(write_u32(Len(contents.val)) \o contents.val)
\* OpenRgbPacket::serialize: the u32 length (contents + 4), then the contents
packet_serialize(contents) ==
    IF contents.err # "Ok" THEN contents
    ELSE OkVal(write_u32(Len(contents.val) + 4) \o contents.val)

\* SerToBuf::serialize for the value x of type t into a WriteMessage of
\* the given protocol version, and the values of a sequence of types
\* written one after another.  <<"Slice", T>> is &[T]; a Vec writes its
\* length `as u16`, a slice refuses a length above u16::MAX.
RECURSIVE serialize(_, _, _), write_values(_, _, _)
serialize(t, x, version) ==
    CASE t[1] = "unit" -> OkVal(<<>>)
      [] t[1] = "u8" -> OkVal(<<x>>)
      [] t[1] = "u16" -> OkVal(write_u16(x))
      [] t[1] = "u32" -> OkVal(write_u32(x))
      [] t[1] = "i32" -> OkVal(i32_as_u32(x))
      [] t[1] = "Color" -> OkVal(<<x[1], x[2], x[3], 0>>)
      [] t[1] = "String" -> serialize_str(x)
      [] t[1] = "Vec" ->
            LET items == write_values([i \in DOMAIN x |-> t[2]], x, version)
            IN IF items.err # "Ok" THEN items
               ELSE OkVal(write_u16(Len(x) % (U16_MAX + 1)) \o items.val)
      [] t[1] = "Slice" ->
            LET items == write_values([i \in DOMAIN x |-> t[2]], x, version)
            IN IF Len(x) > U16_MAX THEN ErrVal("ProtocolError")
               ELSE IF items.err # "Ok" THEN items
               ELSE OkVal(write_u16(Len(x)) \o items.val)
      [] t[1] = "Array" -> serialize(<<"Slice", t[3]>>, x, version)
      [] t[1] = "Tuple" -> write_values(t[2], x, version)
      [] t[1] = "Enum" -> OkVal(write_u32(u32_from(t[2], x)))
      [] t[1] = "Flags" -> OkVal(write_u32(x))
      [] t[1] = "Option" ->
            IF unsupported_version(version, t[2]) THEN OkVal(<<>>)
            ELSE IF x = None THEN OkVal(<<>>)
            ELSE serialize(t[3], x[1], version)
      [] t[1] = "SegmentData" ->
            IF version < 4 THEN ErrVal("ProtocolError")
            ELSE write_values(<< <<"String">>, <<"Enum", "ZoneType">>,
                                 <<"u32">>, <<"u32">> >>,
                              <<x.name, x.seg_type, x.start_idx, x.led_count>>,
                              version)
      [] t[1] = "ModeData" ->
            write_values([i \in DOMAIN ModeDataWire |-> ModeDataWire[i][2]],
                         [i \in DOMAIN ModeDataWire |-> x[ModeDataWire[i][1]]],
                         version)

write_values(ts, xs, version) ==
    IF ts = <<>> THEN OkVal(<<>>)
    ELSE LET first == serialize(Head(ts), Head(xs), version)
             rest == write_values(Tail(ts), Tail(xs), version)
         IN IF first.err # "Ok" THEN first
            ELSE IF rest.err # "Ok" THEN rest
            ELSE OkVal(first.val \o rest.val)
\* the mode of test_write_001, a mode without name, flags and colours, and
\* a mode read at a protocol version below 3
ModeTest ==
    [id |-> 0, name |-> <<116, 101, 115, 116>>, value |-> 46, flags |-> 31,
     speed_min |-> 10, speed_max |-> 1000, speed |-> 51,
     brightness_min |-> Some(1), brightness_max |-> Some(231),
     brightness |-> Some(50), color_mode |-> "PerLED",
     colors |-> << <<37, 54, 126>>, <<37, 54, 255>> >>,
     colors_min |-> 0, colors_max |-> 256, direction |-> "Horizontal"]
ModeBare ==
    [id |-> 1, name |-> <<>>, value |-> -1, flags |-> 0,
     speed_min |-> 0, speed_max |-> 0, speed |-> 0,
     brightness_min |-> Some(0), brightness_max |-> Some(0),
     brightness |-> Some(0), color_mode |-> "None", colors |-> <<>>,
     colors_min |-> 0, colors_max |-> 0, direction |-> "Left"]
ModeOld ==
    [ModeTest EXCEPT !.brightness_min = None, !.brightness_max = None,
                     !.brightness = None, !.flags = 2]

\* ControllerData::set_id
set_id(c, id) == [c EXCEPT !.id = id]

\* ModeData as the session sees it; ser stands for the bytes
\* ModeData::serialize writes for the value
ModeData(id, name, manual_save, ser) ==
    [id |-> id, name |-> name, manual_save |-> manual_save, ser |-> ser]

\* SegmentData::serialize: segment.ser stands for the bytes of the value
segment_serialize(segment, version) ==
    IF version < 4 THEN ErrVal("ProtocolError") ELSE OkVal(segment.ser)

\* OpenRgbProtocol::update_leds on the byte stream: OpenRgbPacket<&[Color]>
session_update_leds(p, cid, vec, io) ==
    proto_write_packet(
        p, cid, PacketId.RGBControllerUpdateLeds,
        packet_serialize(serialize(<<"Slice", <<"Color">> >>, vec,
                                   p.stream.protocol_version)), io)

\* OpenRgbProtocol::update_zone_leds: OpenRgbPacket<(u32, &[Color])>
update_zone_leds(p, cid, zone_id, vec, io) ==
    proto_write_packet(
        p, cid, PacketId.RGBControllerUpdateZoneLeds,
        packet_serialize(
            serialize(<<"Tuple", << <<"u32">>, <<"Slice", <<"Color">> >> >> >>,
                      <<zone_id, vec>>, p.stream.protocol_version)), io)
\* OpenRgbProtocol::get_controller_count
get_controller_count(p, io, arrive) ==
    proto_request(p, NO_DEVICE_ID, PacketId.RequestControllerCount,
                  OkVal(<<>>), io, arrive, <<"u32">>)

\* ProtocolOption::replace that stores the value whatever the option is
replace_always(opt, val) == Some(val)
\* ProtocolOption::replace: Some(_) becomes Some(val), UnsupportedVersion
\* stays
replace(opt, val) == IF opt # None THEN Some(val) ELSE opt

\* ModeData::set_brightness
set_brightness(mode, b) ==
    IF contains(mode.flags, Flags.ModeFlag.HasBrightness)
    THEN [mode EXCEPT !.brightness = replace(@, b)]
    ELSE mode

\* OpenRgbProtocol::get_controller: request the data with the session's
\* protocol_id as payload, then set_id(controller_id)
proto_get_controller(p, cid, io, arrive) ==
    Only({ IF r.err # "Ok" THEN r
           ELSE [r EXCEPT !.val = set_id(@, cid)]
         : r \in {proto_request(p, cid,
                                PacketId.RequestControllerData,
                                OkVal(write_u32(p.protocol_id)), io, arrive,
                                <<"ControllerData">>)} })

\* OpenRgbProtocol::update_mode
update_mode(p, cid, mode, io) ==
    proto_write_packet(p, cid, PacketId.RGBControllerUpdateMode,
                       packet_serialize(OkVal(write_u32(mode.id) \o mode.ser)),
                       io)

\* OpenRgbProtocol::get_profiles
get_profiles(p, io, arrive) ==
    LET chk == check_protocol_version(p, 2)
    IN IF chk.err # "Ok" THEN Refused(chk.err, p, chk.current, chk.min)
       ELSE Only({ IF r.err # "Ok" THEN r ELSE [r EXCEPT !.val = @[2]]
                 : r \in {proto_request(
                              p, 0, PacketId.RequestProfileList, OkVal(<<>>),
                              io, arrive,
                              <<"Tuple", << <<"u32">>,
                                            <<"Vec", <<"String">> >> >> >>)} })

\* OpenRgbProtocol::load_profile
load_profile(p, name, io) ==
    LET chk == check_protocol_version(p, 2)
    IN IF chk.err # "Ok" THEN Refused(chk.err, p, chk.current, chk.min)
       ELSE proto_write_packet(p, 0, PacketId.RequestLoadProfile,
                               serialize_RawString(name), io)

\* OpenRgbProtocol::save_profile
save_profile(p, name, io) ==
    LET chk == check_protocol_version(p, 2)
    IN IF chk.err # "Ok" THEN Refused(chk.err, p, chk.current, chk.min)
       ELSE proto_write_packet(p, 0, PacketId.RequestSaveProfile,
                               serialize_str(name), io)

\* OpenRgbProtocol::delete_profile
delete_profile(p, name, io) ==
    LET chk == check_protocol_version(p, 2)
    IN IF chk.err # "Ok" THEN Refused(chk.err, p, chk.current, chk.min)
       ELSE proto_write_packet(p, 0, PacketId.RequestDeleteProfile,
                               serialize_str(name), io)

\* OpenRgbProtocol::save_mode
save_mode(p, cid, mode, io) ==
    LET chk == check_protocol_version(p, 3)
    IN IF chk.err # "Ok" THEN Refused(chk.err, p, chk.current, chk.min)
       ELSE proto_write_packet(
                p, cid, PacketId.RGBControllerSaveMode,
                packet_serialize(OkVal(write_u32(mode.id) \o mode.ser)), io)

\* OpenRgbProtocol::get_plugins
get_plugins(p, io, arrive) ==
    LET chk == check_protocol_version(p, 4)
    IN IF chk.err # "Ok" THEN Refused(chk.err, p, chk.current, chk.min)
       ELSE Only({ IF r.err # "Ok" THEN r ELSE [r EXCEPT !.val = @[2]]
                 : r \in {proto_request(
                              p, NO_DEVICE_ID, PacketId.RequestPluginList,
                              OkVal(<<>>), io, arrive,
                              <<"Tuple", << <<"u32">>,
                                            <<"Vec", <<"PluginData">> >> >> >>)} })

\* OpenRgbProtocol::add_segment
add_segment(p, cid, zone_id, segment, io) ==
    LET chk == check_protocol_version(p, 5)
        seg == segment_serialize(segment, p.stream.protocol_version)
        contents == IF seg.err # "Ok" THEN seg
                    ELSE OkVal(write_u32(zone_id) \o seg.val)
    IN IF chk.err # "Ok" THEN Refused(chk.err, p, chk.current, chk.min)
       ELSE proto_write_packet(p, cid, PacketId.RGBControllerAddSegment,
                               packet_serialize(contents), io)

\* OpenRgbProtocol::clear_segments
clear_segments(p, cid, io) ==
    LET chk == check_protocol_version(p, 5)
    IN IF chk.err # "Ok" THEN Refused(chk.err, p, chk.current, chk.min)
       ELSE proto_write_packet(p, cid, PacketId.RgbControllerClearSegments,
                               OkVal(<<>>), io)

\* OpenRgbProtocol::rescan_devices
rescan_devices(p, io) ==
    LET chk == check_protocol_version(p, 5)
    IN IF chk.err # "Ok" THEN Refused(chk.err, p, chk.current, chk.min)
       ELSE proto_write_packet(p, NO_DEVICE_ID, PacketId.RequestDeviceRescan,
                               OkVal(<<>>), io)

\* m.name().to_ascii_lowercase().contains(pat) for the mode names of the model
name_contains(name, pat) ==
    <<name, pat>> \in {<<"Direct", "direct">>, <<"Custom", "custom">>,
                       <<"Static", "static">>}

\* Controller::get_mode_if_contains: the first mode whose name contains pat
get_mode_if_contains(c, pat) ==
    LET hits == SelectSeq(c.modes, LAMBDA m : name_contains(m.name, pat))
    IN IF hits = <<>> THEN None ELSE Some(Head(hits))

\* Option::or
or(a, b) == IF a # None THEN a ELSE b

\* Controller::set_controllable_mode: update_mode only (the save_mode call
\* is commented out)
set_controllable_mode(p, c, io) ==
    LET mode == or(or(get_mode_if_contains(c, "direct"),
                      get_mode_if_contains(c, "custom")),
                   get_mode_if_contains(c, "static"))
    IN IF mode = None THEN Refused("ProtocolError", p, 0, 0)
       ELSE update_mode(p, c.id, mode[1], io)

\* ControllerData::active_mode: modes.get(active_mode)
active_mode(c) ==
    IF 0 <= c.active_mode /\ c.active_mode < Len(c.modes)
    THEN Some(c.modes[c.active_mode + 1]) ELSE None

\* Controller::save_mode
controller_save_mode(p, c, io) ==
    IF active_mode(c) = None THEN Refused("CommandError", p, 0, 0)
    ELSE IF ~active_mode(c)[1].manual_save
    THEN Refused("CommandError", p, 0, 0)
    ELSE save_mode(p, c.id, active_mode(c)[1], io)

(***************************************************************************)
(* What the callers pass and what the server sends.                        *)
(***************************************************************************)
\* profile names, as bytes
Names == {<<>>, <<97>>}

ModeDirect == ModeData(0, "Direct", FALSE, <<1>>)
ModeStatic == ModeData(1, "Static", TRUE, <<2>>)

\* the controllers a mode is set on: id, modes, index of the active mode
ModeControllers ==
    { [id |-> 0, modes |-> <<ModeDirect, ModeStatic>>, active_mode |-> 1],
      [id |-> 1, modes |-> <<ModeData(0, "Rainbow", FALSE, <<3>>), ModeStatic>>,
       active_mode |-> 0],
      [id |-> 2, modes |-> <<ModeData(0, "Rainbow", FALSE, <<3>>)>>,
       active_mode |-> -1] }

\* what the server may send back for a request: nothing (it closed the
\* connection); the response; a response with a wrong magic value, for
\* another device, of another kind (DeviceListUpdated) or of no kind (7),
\* each followed by nothing or by the first byte of the next packet; the
\* response cut short in its payload
Responses(device_id, packet_id, payloads) ==
    {<<>>}
      \cup {h[1] \o write_u32(h[2]) \o write_u32(h[3]) \o write_u32(Len(p))
                 \o p \o t :
              h \in {<<MAGIC, device_id, packet_id>>,
                     <<<<79, 82, 71, 65>>, device_id, packet_id>>,
                     <<MAGIC, device_id + 1, packet_id>>,
                     <<MAGIC, device_id, PacketId.DeviceListUpdated>>,
                     <<MAGIC, device_id, 7>>},
              p \in payloads, t \in {<<>>, <<79>>}}
      \cup {header_bytes(Header(device_id, packet_id, Len(p) + 1)) \o p :
              p \in payloads}

\* payloads decoded as u32: the value, the value followed by one more
\* byte, and two bytes only
U32Payloads(v) == {write_u32(v), write_u32(v) \o <<9>>, <<1, 0>>}

\* payloads decoded as (u32, Vec<String>): no profile, the profile "a", a
\* profile that is not UTF-8, a profile shorter than its length says
ProfilePayloads ==
    { write_u32(0) \o write_u16(0),
      write_u32(0) \o write_u16(1) \o serialize_str(<<97>>).val,
      write_u32(0) \o write_u16(1) \o serialize_str(<<255>>).val,
      write_u32(0) \o write_u16(1) \o write_u16(3) \o <<97, 0>> }

\* payloads decoded as (u32, Vec<PluginData>): no plugin, one plugin, a
\* plugin list that ends after its count
PluginPayloads ==
    { write_u32(0) \o write_u16(0),
      write_u32(0) \o write_u16(1) \o serialize_str(<<97>>).val
          \o serialize_str(<<>>).val \o serialize_str(<<97>>).val
          \o write_u32(0) \o write_u32(1),
      write_u32(0) \o write_u16(1) }

\* the devices of the server: a device with two modes, a linear zone of
\* two segments and a matrix zone; a device with one zone; a device with
\* nothing
ServerSegment(name, start, count) ==
    [name |-> name, seg_type |-> "Linear", start_idx |-> start,
     led_count |-> count]
ServerZone(name, zone_type, count, matrix, segments, flags) ==
    [name |-> name, zone_type |-> zone_type, leds_min |-> 0, leds_max |-> 4,
     leds_count |-> count, matrix |-> matrix, segments |-> segments,
     flags |-> flags]
ServerDevice(device_type, name, active, modes, zones, leds, cols) ==
    [device_type |-> device_type, name |-> name, active_mode |-> active,
     modes |-> modes, zones |-> zones, leds |-> leds, colors |-> cols,
     led_alt_names |-> [i \in DOMAIN leds |-> <<>>], flags |-> 1]

ZoneStrip ==
    ServerZone(<<83>>, "Linear", 2, None,
               <<ServerSegment(<<97>>, 0, 1), ServerSegment(<<98>>, 1, 1)>>, 1)
ZoneGrid ==
    ServerZone(<<71>>, "Matrix", 3,
               Some([height |-> 1, width |-> 3, data |-> <<0, 1, 2>>]),
               <<>>, 0)
ServerDevices ==
    { ServerDevice("Keyboard", <<75>>, 1, <<ModeTest, ModeBare>>,
                   <<ZoneStrip, ZoneGrid>>, << <<<<76>>, 0>>, <<<<77>>, 1>> >>,
                   <<ColorDefault, <<37, 54, 126>> >>),
      ServerDevice("Mouse", <<>>, 0, <<ModeBare>>, <<ZoneGrid>>, <<>>, <<>>),
      ServerDevice("Unknown", <<>>, -1, <<>>, <<>>, <<>>, <<>>) }

\* the bytes the server sends for a zone and for a device at a version
server_matrix(matrix) ==
    IF matrix = None THEN write_u16(0)
    ELSE write_u16(8 + 4 * Len(matrix[1].data))
            \o write_u32(matrix[1].height) \o write_u32(matrix[1].width)
            \o write_values([i \in DOMAIN matrix[1].data |-> <<"u32">>],
                            matrix[1].data, 0).val
server_zone(z, version) ==
    write_values(<< <<"String">>, <<"Enum", "ZoneType">>, <<"u32">>,
                    <<"u32">>, <<"u32">> >>,
                 <<z.name, z.zone_type, z.leds_min, z.leds_max, z.leds_count>>,
                 version).val
       \o server_matrix(z.matrix)
       \o write_values(<< <<"Option", 4, <<"Vec", <<"SegmentData">> >> >>,
                          <<"Option", 5, <<"Flags", "ZoneFlags">> >> >>,
                       <<Some(z.segments), Some(z.flags)>>, version).val
RECURSIVE server_zones(_, _)
server_zones(zs, version) ==
    IF zs = <<>> THEN <<>>
    ELSE server_zone(Head(zs), version) \o server_zones(Tail(zs), version)
server_device_body(d, version) ==
    write_values(<< <<"Enum", "DeviceType">>, <<"String">>, <<"String">>,
                    <<"String">>, <<"String">>, <<"String">>, <<"String">>,
                    <<"u16">>, <<"i32">> >>,
                 <<d.device_type, d.name, <<>>, <<>>, <<>>, <<>>, <<>>,
                   Len(d.modes), d.active_mode>>, version).val
       \o write_values([i \in DOMAIN d.modes |-> <<"ModeData">>], d.modes,
                       version).val
       \o write_u16(Len(d.zones)) \o server_zones(d.zones, version)
       \o write_values(<< <<"Vec", <<"Tuple", << <<"String">>, <<"u32">> >> >> >>,
                          <<"Vec", <<"Color">> >>,
                          <<"Option", 5, <<"Vec", <<"String">> >> >>,
                          <<"Option", 5, <<"Flags", "ControllerFlags">> >> >>,
                       <<d.leds, d.colors, Some(d.led_alt_names),
                         Some(d.flags)>>, version).val
server_device(d, version) ==
    write_u32(Len(server_device_body(d, version)) + 4)
       \o server_device_body(d, version)

\* payloads decoded as ControllerData: every device as the server sends
\* it at the version, and the first device without its last byte
ControllerPayloads(version) ==
    {server_device(d, version) : d \in ServerDevices}
       \cup {SubSeq(server_device(d, version), 1,
                    Len(server_device(d, version)) - 1) :
                d \in {dd \in ServerDevices : dd.device_type = "Keyboard"}}

\* what the server may send back for a controller: each device and the
\* device cut short under a header that is accepted, and every answer of
\* Responses for the device with nothing
ControllerResponses(cid, version) ==
    Responses(cid, PacketId.RequestControllerData,
              {server_device(d, version) :
                  d \in {dd \in ServerDevices : dd.device_type = "Unknown"}})
      \cup {header_bytes(Header(cid, PacketId.RequestControllerData, Len(p)))
                 \o p :
              p \in ControllerPayloads(version)}

\* the record of a call: the operation, its outcome and the session before
SessionCall(op, r, before) ==
    [op |-> op, res |-> r.err, val |-> r.val, current |-> r.current,
     min |-> r.min, device_id |-> r.device_id, packet_id |-> r.packet_id,
     wrote |-> r.wrote, seen |-> r.seen, read |-> r.read, pre |-> before]

\* OpenRgbProtocol::connect_to(addr, protocol_version) opened the socket
SessionInit ==
    /\ \E v \in {0, DEFAULT_PROTOCOL} :
         proto = [protocol_id |-> 0, stream |-> ProtocolStream(v), locks |-> 0]
    /\ sphase = "new"
    /\ server_max \in 0..MaxServerVersion
    /\ slast = SessionCall("connect_to", Refused("Ok", proto, 0, 0), proto)
    /\ sops = 0
    /\ LedParked
    /\ GroupParked
    /\ CallersParked
    /\ CodecParked

\* OpenRgbProtocol::connect_to, once the socket is open: new(stream)
Connect ==
    /\ sphase = "new"
    /\ \E io \in IoOutcomes,
          arrive \in Responses(NO_DEVICE_ID, PacketId.RequestProtocolVersion,
                               U32Payloads(server_max)) :
         \E r \in {OpenRgbProtocol_new(proto.stream, io, arrive)} :
            /\ proto' = r.p
            /\ sphase' = IF r.err = "Ok" THEN "connected" ELSE "failed"
            /\ slast' = SessionCall("new", r, proto)
    /\ UNCHANGED <<server_max, sops>>
    /\ UNCHANGED <<ledVars, groupVars, callerVars, codecVars>>

\* the effect of one call with outcome r on the connected session
SessionApply(op, r) ==
    /\ proto' = r.p
    /\ slast' = SessionCall(op, r, proto)
    /\ sops' = sops + 1
    /\ UNCHANGED <<sphase, server_max>>
    /\ UNCHANGED <<ledVars, groupVars, callerVars, codecVars>>

CanCall == sphase = "connected" /\ sops < MaxSessionOps

GetControllerCount ==
    /\ CanCall
    /\ \E io \in IoOutcomes,
          arrive \in Responses(NO_DEVICE_ID, PacketId.RequestControllerCount,
                               U32Payloads(2)) :
         SessionApply("get_controller_count",
                      get_controller_count(proto, io, arrive))

GetController ==
    /\ CanCall
    /\ \E cid \in 0..1, io \in IoOutcomes :
         \E arrive \in ControllerResponses(cid, proto.protocol_id) :
            SessionApply("get_controller",
                         proto_get_controller(proto, cid, io, arrive))

\* the caller holds a ControllerData it got from the session
Holding ==
    /\ sphase = "connected"
    /\ slast.op \in {"get_controller", "set_brightness", "replace"}
    /\ slast.res = "Ok"

\* ModeData::set_brightness on a mode of the data the caller holds
SetBrightness ==
    /\ Holding
    /\ \E i \in DOMAIN slast.val.modes, b \in {0, 7} :
         slast' = [slast EXCEPT !.op = "set_brightness",
                                !.val.modes[i] = set_brightness(@, b)]
    /\ UNCHANGED <<proto, sphase, server_max, sops>>
    /\ UNCHANGED <<ledVars, groupVars, callerVars, codecVars>>

\* ProtocolOption::replace on the flags of a zone (a public field) of the
\* data the caller holds
ReplaceZoneFlags ==
    /\ Holding
    /\ \E i \in DOMAIN slast.val.zones, v \in {0, 1} :
         slast' = [slast EXCEPT !.op = "replace",
                                !.val.zones[i].flags = replace(@, v)]
    /\ UNCHANGED <<proto, sphase, server_max, sops>>
    /\ UNCHANGED <<ledVars, groupVars, callerVars, codecVars>>

GetProfiles ==
    /\ CanCall
    /\ \E io \in IoOutcomes,
          arrive \in Responses(0, PacketId.RequestProfileList,
                               ProfilePayloads) :
         SessionApply("get_profiles", get_profiles(proto, io, arrive))

LoadProfile ==
    /\ CanCall
    /\ \E name \in Names, io \in IoOutcomes :
         SessionApply("load_profile", load_profile(proto, name, io))

SaveProfile ==
    /\ CanCall
    /\ \E name \in Names, io \in IoOutcomes :
         SessionApply("save_profile", save_profile(proto, name, io))

DeleteProfile ==
    /\ CanCall
    /\ \E name \in Names, io \in IoOutcomes :
         SessionApply("delete_profile", delete_profile(proto, name, io))

SaveMode ==
    /\ CanCall
    /\ \E cid \in 0..1, mode \in {ModeDirect, ModeStatic}, io \in IoOutcomes :
         SessionApply("save_mode", save_mode(proto, cid, mode, io))

ControllerSaveMode ==
    /\ CanCall
    /\ \E c \in ModeControllers, io \in IoOutcomes :
         SessionApply("controller_save_mode", controller_save_mode(proto, c, io))

GetPlugins ==
    /\ CanCall
    /\ \E io \in IoOutcomes,
          arrive \in Responses(NO_DEVICE_ID, PacketId.RequestPluginList,
                               PluginPayloads) :
         SessionApply("get_plugins", get_plugins(proto, io, arrive))

AddSegment ==
    /\ CanCall
    /\ \E cid \in 0..1, zone_id \in 0..1, io \in IoOutcomes :
         SessionApply("add_segment",
                      add_segment(proto, cid, zone_id, [ser |-> <<7>>], io))

ClearSegments ==
    /\ CanCall
    /\ \E cid \in 0..1, io \in IoOutcomes :
         SessionApply("clear_segments", clear_segments(proto, cid, io))

RescanDevices ==
    /\ CanCall
    /\ \E io \in IoOutcomes :
         SessionApply("rescan_devices", rescan_devices(proto, io))

\* one colour more than a u16 counts
TooManyColors == [i \in 1..(U16_MAX + 1) |-> ColorDefault]

UpdateLeds ==
    /\ CanCall
    /\ \E cid \in 0..1, vec \in ColorVecs(2) \cup {TooManyColors},
          io \in IoOutcomes :
         SessionApply("update_leds", session_update_leds(proto, cid, vec, io))

UpdateZoneLeds ==
    /\ CanCall
    /\ \E cid \in 0..1, zone_id \in 0..1, vec \in ColorVecs(2),
          io \in IoOutcomes :
         SessionApply("update_zone_leds",
                      update_zone_leds(proto, cid, zone_id, vec, io))

SetControllableMode ==
    /\ CanCall
    /\ \E c \in ModeControllers, io \in IoOutcomes :
         SessionApply("set_controllable_mode",
                      set_controllable_mode(proto, c, io))

SessionNext ==
    \/ Connect
    \/ GetControllerCount
    \/ GetController
    \/ SetBrightness
    \/ ReplaceZoneFlags
    \/ GetProfiles
    \/ LoadProfile
    \/ SaveProfile
    \/ DeleteProfile
    \/ SaveMode
    \/ ControllerSaveMode
    \/ GetPlugins
    \/ AddSegment
    \/ ClearSegments
    \/ RescanDevices
    \/ SetControllableMode
    \/ UpdateLeds
    \/ UpdateZoneLeds

SpecSession == SessionInit /\ [][SessionNext]_vars

(***************************************************************************)
(* Vocabulary of the session properties.                                   *)
(***************************************************************************)
\* the chunks written to the socket and the unread bytes of the socket
Tx == proto.stream.tx
Rx == proto.stream.rx

\* the fields of a 16-byte header as they lie on the wire: four bytes each
Wire(h) ==
    [magic |-> SubSeq(h, 1, 4), device_id |-> SubSeq(h, 5, 8),
     packet_id |-> SubSeq(h, 9, 12), packet_size |-> SubSeq(h, 13, 16)]

\* the last call wrote its request and read a whole header from the socket
ReadAHeader == slast.wrote /\ slast.read # NoRead /\ Len(slast.seen) >= 16
SeenHeader == Wire(SubSeq(slast.seen, 1, 16))

\* the whole packets of kind k in Tx: the positions of their headers
SentPackets(k) ==
    {i \in 1..(Len(Tx) - 1) :
        /\ Tx[i].part = "header"
        /\ Wire(Tx[i].bytes).packet_id = write_u32(k)
        /\ Tx[i + 1].part = "payload"}

(***************************************************************************)
(* C13  Version negotiation.  A connected session has written, first, one  *)
(* request of kind 40 for device 0 whose payload is the u32 5; its         *)
(* protocol_id and the version of its stream both equal min(5, S) for the  *)
(* server's maximum S, whatever version connect_to was called with, and    *)
(* every later call starts from, and leaves, that same value.              *)
(***************************************************************************)
C13_VersionNegotiated ==
    sphase = "connected" =>
        LET v == IF server_max < 5 THEN server_max ELSE 5
        IN /\ get_protocol_version(proto) = v
           /\ proto.stream.protocol_version = v
           /\ Len(Tx) >= 2
           /\ Tx[1] = [part |-> "header",
                       bytes |-> <<79, 82, 71, 66, 0, 0, 0, 0,
                                   40, 0, 0, 0, 4, 0, 0, 0>>]
           /\ Tx[2] = [part |-> "payload", bytes |-> <<5, 0, 0, 0>>]
           /\ \A i \in 3..Len(Tx) :
                 Tx[i].part = "header" =>
                    Wire(Tx[i].bytes).packet_id # write_u32(40)
           /\ slast.op # "new" =>
                 /\ slast.pre.protocol_id = v
                 /\ slast.pre.stream.protocol_version = v

\* connect_to was called with version 0, the server reported 6, the
\* session runs at 5
C13_Witness ==
    /\ sphase = "connected"
    /\ slast.op = "new"
    /\ slast.pre.stream.protocol_version = 0
    /\ server_max = 6
    /\ get_protocol_version(proto) = 5
    /\ proto.stream.protocol_version = 5

(***************************************************************************)
(* C14  Version gating.  A gated call (profile list, load, save, delete:   *)
(* 2; save-mode: 3; plugin list: 4; add-segment, clear-segments, rescan:   *)
(* 5) made below its minimum returns UnsupportedOperation with the active  *)
(* version and the minimum, and leaves the session as it was: no lock      *)
(* taken, nothing written, nothing read.  At or above the minimum the      *)
(* call is never an UnsupportedOperation.                                  *)
(***************************************************************************)
C14_GatedBeforeIo ==
    LET need == [get_profiles |-> 2, load_profile |-> 2, save_profile |-> 2,
                 delete_profile |-> 2, save_mode |-> 3, get_plugins |-> 4,
                 add_segment |-> 5, clear_segments |-> 5, rescan_devices |-> 5]
    IN slast.op \in DOMAIN need =>
          IF slast.pre.protocol_id < need[slast.op]
          THEN /\ slast.res = "UnsupportedOperation"
               /\ slast.current = slast.pre.protocol_id
               /\ slast.min = need[slast.op]
               /\ proto = slast.pre
               /\ ~slast.wrote
               /\ slast.read = NoRead
          ELSE slast.res # "UnsupportedOperation"

\* the server reported 3; rescan (needs 5) was refused while unread bytes
\* lay on the socket
C14_Witness ==
    /\ server_max = 3
    /\ slast.op = "rescan_devices"
    /\ slast.res = "UnsupportedOperation"
    /\ slast.current = 3 /\ slast.min = 5
    /\ Rx # <<>>
    /\ Len(Tx) = 2

(***************************************************************************)
(* C15  Every update-mode packet (kind 1101) written for a device is       *)
(* followed by a save-mode packet (kind 1102) for the same device carrying *)
(* the same mode.                                                          *)
(***************************************************************************)
C15_ModeUpdateIsSaved ==
    \A i \in SentPackets(1101) :
        \E j \in SentPackets(1102) :
            /\ j > i
            /\ Wire(Tx[j].bytes).device_id = Wire(Tx[i].bytes).device_id
            /\ Tx[j + 1].bytes = Tx[i + 1].bytes

(***************************************************************************)
(* C16  Response matching.  A request that read a header returns Ok only   *)
(* if that header carries the packet kind and the device id that were      *)
(* sent; a header of another kind or for another device makes the request  *)
(* a ProtocolError that returns no value.                                  *)
(***************************************************************************)
C16_ResponseMatching ==
    ReadAHeader =>
        LET same == /\ SeenHeader.packet_id = write_u32(slast.packet_id)
                    /\ SeenHeader.device_id = write_u32(slast.device_id)
        IN /\ slast.res = "Ok" => same
           /\ ~same => slast.res = "ProtocolError" /\ slast.val = <<>>

\* a well-formed response of the right kind for another device, with a
\* payload that would have decoded, was rejected
C16_Witness ==
    /\ ReadAHeader
    /\ SeenHeader.magic = <<79, 82, 71, 66>>
    /\ SeenHeader.packet_id = write_u32(slast.packet_id)
    /\ SeenHeader.device_id # write_u32(slast.device_id)
    /\ SeenHeader.packet_size = write_u32(4) /\ Len(slast.seen) >= 20
    /\ slast.res = "ProtocolError"

(***************************************************************************)
(* C17  Bad magic.  When the first 4 bytes of the 16-byte header read are  *)
(* not "ORGB" the read is a ProtocolError, the 16 header bytes are all     *)
(* that was taken from the socket, and the decoder did not run.            *)
(***************************************************************************)
C17_BadMagic ==
    (ReadAHeader /\ SeenHeader.magic # <<79, 82, 71, 66>>) =>
        /\ slast.res = "ProtocolError"
        /\ Rx = SubSeq(slast.seen, 17, Len(slast.seen))
        /\ ~slast.read.accepted
        /\ ~slast.read.decoded

\* a header with a wrong magic value arrived with its payload behind it
C17_Witness ==
    /\ ReadAHeader
    /\ SeenHeader.magic # <<79, 82, 71, 66>>
    /\ SeenHeader.packet_id = write_u32(slast.packet_id)
    /\ SeenHeader.device_id = write_u32(slast.device_id)
    /\ SeenHeader.packet_size = write_u32(4)
    /\ Len(Rx) = Len(slast.seen) - 16
    /\ Len(Rx) >= 4

(***************************************************************************)
(* C18  Framing.  Once read_packet accepted a header and the payload the   *)
(* header announces arrived, exactly 16 + payload_len bytes have left the  *)
(* socket, whether the decoder succeeded, failed or used fewer bytes than  *)
(* the payload has; what follows the packet is still on the socket.        *)
(***************************************************************************)
C18_Framing ==
    (/\ ReadAHeader
     /\ slast.read.accepted
     /\ Len(slast.seen) >= 16 + slast.read.header.packet_size) =>
        /\ slast.read.decoded
        /\ write_u32(slast.read.header.packet_size) = SeenHeader.packet_size
        /\ Rx = SubSeq(slast.seen, 16 + slast.read.header.packet_size + 1,
                       Len(slast.seen))

\* the decoder used fewer bytes than the payload has and the start of the
\* next packet is what is left on the socket
C18_Witness ==
    /\ ReadAHeader
    /\ slast.read.accepted
    /\ slast.read.decoded
    /\ slast.res = "Ok"
    /\ slast.read.used < slast.read.header.packet_size
    /\ SeenHeader.packet_size = write_u32(5)
    /\ Rx = <<79>>

(***************************************************************************)
(* Several callers on clones of one OpenRgbProtocol: the clones share the  *)
(* stream behind Arc<Mutex<ProtocolStream>>.  A call is a sequence of      *)
(* steps, one per await: lock, write the header, write the payload and,    *)
(* for a request, read the header and read the payload.  The server reads  *)
(* the packets in the order the bytes arrive and answers the requests.     *)
(***************************************************************************)
\* number of callers sharing the session
NumCallers == 2
\* number of calls made on the session, all callers together
MaxCalls == 3

Callers == 1..NumCallers

\* a caller between two calls
Idle ==
    [at |-> "idle", next |-> "none", op |-> "none", device_id |-> 0,
     packet_id |-> 0, tag |-> 0, header |-> NoHeader]

\* a guard that outlives the call
guard_dropped_never(next) == FALSE

\* a guard taken anew for every stream operation of a call
guard_dropped_each_await(next) == TRUE

\* a guard that covers the write of a request and, taken again, its read
guard_dropped_after_write(next) == next \in {"read_header", "return"}

\* the MutexGuard of self.stream.lock().await is a temporary of the
\* statement that makes the whole call: it is dropped when the call
\* returns, not before the step `next` of the call
guard_dropped(next) == next = "return"

\* the payload of a call: a request carries its own number, which the
\* server's response depends on; a fire-and-forget write carries a name
CallPayload(call) ==
    IF call.op = "request" THEN write_u32(call.tag)
    ELSE serialize_RawString(<<96 + call.tag>>).val

\* the bytes of a sequence of chunks written to the socket
RECURSIVE Bytes(_)
Bytes(chunks) ==
    IF chunks = <<>> THEN <<>> ELSE Head(chunks).bytes \o Bytes(Tail(chunks))

\* the session the callers share: negotiated, nothing written since
CallersInit ==
    /\ proto = [protocol_id |-> DEFAULT_PROTOCOL,
                stream |-> ProtocolStream(DEFAULT_PROTOCOL), locks |-> 0]
    /\ sphase = "shared"
    /\ server_max = DEFAULT_PROTOCOL
    /\ slast = <<>>
    /\ sops = 0
    /\ callers = [c \in Callers |-> Idle]
    /\ guard = 0
    /\ events = <<>>
    /\ served = 0
    /\ returned = {}
    /\ abandoned = FALSE
    /\ issued = 0
    /\ LedParked
    /\ GroupParked
    /\ CodecParked

\* a caller starts a call: it comes to self.stream.lock().await
StartCall(c, op, device_id, packet_id) ==
    /\ callers[c].at = "idle"
    /\ callers' = [callers EXCEPT ![c] =
                      [at |-> "lock", next |-> "write_header", op |-> op,
                       device_id |-> device_id, packet_id |-> packet_id,
                       tag |-> issued + 1, header |-> NoHeader]]
    /\ issued' = issued + 1
    /\ UNCHANGED <<proto, guard, events, served, returned, abandoned>>
    /\ UNCHANGED <<ledVars, groupVars, codecVars, sphase, server_max, slast,
                     sops>>

\* OpenRgbProtocol::request is called (get_controller_count)
CallRequest ==
    /\ issued < MaxCalls
    /\ \E c \in Callers :
         StartCall(c, "request", NO_DEVICE_ID, PacketId.RequestControllerCount)

\* OpenRgbProtocol::write_packet is called (set_name)
CallWrite ==
    /\ issued < MaxCalls
    /\ \E c \in Callers :
         StartCall(c, "write", NO_DEVICE_ID, PacketId.SetClientName)

\* self.stream.lock().await returns the guard
Lock ==
    \E c \in Callers :
        /\ callers[c].at = "lock"
        /\ guard = 0
        /\ guard' = c
        /\ callers' = [callers EXCEPT ![c].at = "stream"]
        /\ proto' = [proto EXCEPT !.locks = @ + 1]
        /\ UNCHANGED <<events, served, returned, abandoned, issued>>
        /\ UNCHANGED <<ledVars, groupVars, codecVars, sphase, server_max, slast,
                     sops>>

\* caller c holds the guard and its call stands before the step `next`
MayStep(c, next) ==
    /\ callers[c].at = "stream"
    /\ guard = c
    /\ callers[c].next = next

\* caller c has done the stream operation ev; its call goes on with the
\* step next, or returns res
Advance(c, ev, next, header, res) ==
    /\ events' = Append(events, [caller |-> c, tag |-> callers[c].tag,
                                 ev |-> ev])
    /\ guard' = IF guard_dropped(next) THEN 0 ELSE c
    /\ callers' = [callers EXCEPT ![c] =
                      IF next = "return" THEN Idle
                      ELSE [@ EXCEPT !.next = next, !.header = header,
                                     !.at = IF guard_dropped(next)
                                            THEN "lock" ELSE "stream"]]
    /\ returned' = IF next = "return"
                   THEN returned \cup {[caller |-> c, tag |-> callers[c].tag,
                                        op |-> callers[c].op,
                                        packet_id |-> callers[c].packet_id,
                                        err |-> res.err, val |-> res.val]}
                   ELSE returned
    /\ UNCHANGED <<served, abandoned, issued>>
    /\ UNCHANGED <<ledVars, groupVars, codecVars, sphase, server_max, slast,
                     sops>>

\* ProtocolStream::write_packet: write_all of the header
WriteHeader ==
    \E c \in Callers :
        /\ MayStep(c, "write_header")
        /\ proto' = [proto EXCEPT !.stream.tx =
                        Append(@, [part |-> "header",
                                   bytes |-> header_bytes(
                                       Header(callers[c].device_id,
                                              callers[c].packet_id,
                                              Len(CallPayload(callers[c]))))])]
        /\ Advance(c, "write_header", "write_payload", NoHeader, OkVal(0))

\* ProtocolStream::write_packet: write_all of the payload; a write
\* returns, a request goes on to read_packet
WritePayload ==
    \E c \in Callers :
        /\ MayStep(c, "write_payload")
        /\ proto' = [proto EXCEPT !.stream.tx =
                        Append(@, [part |-> "payload",
                                   bytes |-> CallPayload(callers[c])])]
        /\ Advance(c, "write_payload",
                   IF callers[c].op = "write" THEN "return" ELSE "read_header",
                   NoHeader, OkVal(0))

\* ProtocolStream::read_packet: read_header, once 16 bytes have come
ReadHeader ==
    \E c \in Callers :
        /\ MayStep(c, "read_header")
        /\ Len(proto.stream.rx) >= 16
        /\ \E h \in {read_header(proto.stream.rx, callers[c].device_id,
                                 callers[c].packet_id)} :
              /\ proto' = [proto EXCEPT !.stream.rx = h.rest]
              /\ IF h.err # "Ok"
                 THEN Advance(c, "read_header", "return", NoHeader,
                              ErrVal(h.err))
                 ELSE Advance(c, "read_header", "read_payload", h.header,
                              OkVal(0))

\* ProtocolStream::read_packet: read_exact of the payload, once it has
\* come, and the decoder (the response is decoded as a u32)
ReadPayload ==
    \E c \in Callers :
        /\ MayStep(c, "read_payload")
        /\ Len(proto.stream.rx) >= callers[c].header.packet_size
        /\ \E body \in {read_exact(proto.stream.rx,
                                   callers[c].header.packet_size)} :
              /\ proto' = [proto EXCEPT !.stream.rx = body.rest]
              /\ \E d \in {deserialize(<<"u32">>,
                                       ReceivedMessage(
                                           body.data,
                                           proto.stream.protocol_version))} :
                    Advance(c, "read_payload", "return", NoHeader,
                            [err |-> d.err, val |-> d.val])

\* a drop of the future that empties the socket of what has arrived
future_dropped_drained(st) == [st EXCEPT !.rx = <<>>]
\* the stream when the future of a call is dropped: the future owns the
\* MutexGuard and buffers only, so the drop unlocks the mutex and reads
\* and writes nothing
future_dropped(st) == st

\* the future of a call is dropped at an await while it holds the guard:
\* the guard is released and the call never returns
Abandon ==
    \E c \in Callers :
        /\ callers[c].at = "stream"
        /\ guard = c
        /\ ~abandoned
        /\ abandoned' = TRUE
        /\ guard' = 0
        /\ callers' = [callers EXCEPT ![c] = Idle]
        /\ proto' = [proto EXCEPT !.stream = future_dropped(@)]
        /\ events' = Append(events, [caller |-> c, tag |-> callers[c].tag,
                                     ev |-> "abandon"])
        /\ UNCHANGED <<served, returned, issued>>
        /\ UNCHANGED <<ledVars, groupVars, codecVars, sphase, server_max, slast,
                     sops>>

\* the server reads the next packet off the bytes it received; a request
\* is answered at once, so the responses are in the order of arrival: same
\* kind and device, and a payload that is the number the request carries
Serve ==
    \E h \in {header_read(SubSeq(Bytes(proto.stream.tx), served + 1,
                                 Len(Bytes(proto.stream.tx))))} :
        /\ h.err = "Ok"
        /\ Len(h.rest) >= h.header.packet_size
        /\ served' = served + 16 + h.header.packet_size
        /\ proto' = IF h.header.packet_id \in {PacketId.RequestControllerCount,
                                              PacketId.RequestControllerData}
                    THEN [proto EXCEPT !.stream.rx =
                             @ \o header_bytes(h.header)
                               \o SubSeq(h.rest, 1, h.header.packet_size)]
                    ELSE proto
        /\ UNCHANGED <<callers, guard, events, returned, abandoned, issued>>
        /\ UNCHANGED <<ledVars, groupVars, codecVars, sphase, server_max, slast,
                     sops>>

CallersNext ==
    \/ CallRequest
    \/ CallWrite
    \/ Lock
    \/ WriteHeader
    \/ WritePayload
    \/ ReadHeader
    \/ ReadPayload
    \/ Abandon
    \/ Serve

SpecCallers == CallersInit /\ [][CallersNext]_vars

\* the callers inside a stream operation
Inside == {c \in Callers : callers[c].at = "stream"}

(***************************************************************************)
(* C19  Serialized stream access.  At most one caller is inside a stream   *)
(* operation, and it holds the guard; the stream operations of one call    *)
(* (header write, payload write, header read, payload read) are            *)
(* consecutive: no operation of another call lies between two of them, so  *)
(* every payload on the wire directly follows its own header and nothing   *)
(* is written or read between a request's write and its read.              *)
(***************************************************************************)
C19_SerializedAccess ==
    /\ Cardinality(Inside) <= 1
    /\ \A c \in Inside : guard = c
    /\ \A i, j \in 1..Len(events) :
          (i < j /\ events[i].tag = events[j].tag) =>
              \A k \in i..j : events[k].tag = events[i].tag
    /\ \A i \in 1..Len(Tx) :
          Tx[i].part = "payload" =>
              /\ i > 1
              /\ Tx[i - 1].part = "header"
              /\ Wire(Tx[i - 1].bytes).packet_size = write_u32(Len(Tx[i].bytes))
              /\ \E k \in 2..Len(events) :
                    /\ events[k].ev = "write_payload"
                    /\ events[k - 1].ev = "write_header"
                    /\ events[k - 1].tag = events[k].tag
                    /\ Tx[i].bytes \in {write_u32(events[k].tag),
                                        <<96 + events[k].tag, 0>>}

\* one caller has written its request and waits for the response while
\* another caller waits for the guard, after an earlier call was made
C19_Witness ==
    \E c, d \in Callers :
        /\ c # d
        /\ callers[c].at = "stream"
        /\ callers[c].next = "read_header"
        /\ callers[d].at = "lock"
        /\ returned # {}
        /\ ~abandoned

(***************************************************************************)
(* C20  No cross-talk.  As long as no caller abandoned a call, every       *)
(* request that returned did so with Ok and the value the server produced  *)
(* for that very request (the number the request carried), whatever the    *)
(* interleaving of the callers and of the server.                          *)
(***************************************************************************)
C20_NoCrossTalk ==
    ~abandoned =>
        \A r \in returned :
            r.op = "request" => r.err = "Ok" /\ r.val = r.tag

\* two callers made a request of the same kind for the same device, a
\* fire-and-forget write was made too, and all three returned
C20_Witness ==
    /\ ~abandoned
    /\ \E r1, r2, w \in returned :
          /\ r1.caller # r2.caller
          /\ r1.op = "request" /\ r2.op = "request"
          /\ r1.packet_id = r2.packet_id
          /\ r1.tag < w.tag /\ w.tag < r2.tag
          /\ w.op = "write"

(***************************************************************************)
(* C21  No internal retries.  A call on the session appends to the stream  *)
(* at most one packet (one header, then one payload) and leaves what was   *)
(* written before as it was; it takes from the socket at most one packet   *)
(* (16 header bytes, and the packet_size bytes of a header it accepted).   *)
(* A call whose write failed returns CommunicationError and takes nothing  *)
(* from the socket; a call whose header read failed returns that error     *)
(* without reading a payload or decoding; the result of a call that read   *)
(* is the result of that one read.                                         *)
(***************************************************************************)
\* the chunks the last call appended and the bytes it took from the socket
Added == SubSeq(Tx, Len(slast.pre.stream.tx) + 1, Len(Tx))
Taken == Len(slast.seen) - Len(Rx)

C21_NoRetry ==
    /\ SubSeq(Tx, 1, Len(slast.pre.stream.tx)) = slast.pre.stream.tx
    /\ Len(Added) <= 2
    /\ \A i \in 1..Len(Added) : Added[i].part = <<"header", "payload">>[i]
    /\ slast.wrote <=> Len(Added) = 2
    /\ ~slast.wrote => Rx = slast.pre.stream.rx
    /\ Len(Added) = 1 => slast.res = "CommunicationError"
    /\ (~slast.wrote /\ slast.res = "Ok") => slast.op = "connect_to"
    /\ slast.read = NoRead => Rx = slast.pre.stream.rx
    /\ (slast.wrote /\ slast.read # NoRead) =>
          /\ slast.res = slast.read.err
          /\ IF slast.read.accepted
             THEN Taken <= 16 + slast.read.header.packet_size
             ELSE /\ Taken <= 16
                  /\ slast.res \in {"CommunicationError", "ProtocolError"}
                  /\ ~slast.read.decoded

\* a request was written whole, its response was refused at the header
\* with bytes of the next packet behind it, and those bytes are still on
\* the socket
C21_Witness ==
    /\ slast.op = "get_profiles"
    /\ slast.wrote
    /\ slast.res = "ProtocolError"
    /\ ~slast.read.accepted
    /\ Taken = 16
    /\ Rx # <<>>

(***************************************************************************)
(* The codec on its own: one value is serialized into a WriteMessage,      *)
(* turned into a ReceivedMessage (to_received_msg) and read back; the      *)
(* buffer may be cut short before it is read; a buffer may as well come    *)
(* from the server as it is.                                               *)
(***************************************************************************)
\* largest protocol version of a message
MaxCodecVersion == 5
\* number of reads made on one message
MaxReads == 2
\* largest number of bytes one std::io::Read::read asks for
MaxReadLen == 2

CodecVersions == 0..MaxCodecVersion

\* a string of u16::MAX + 1 bytes
LongString == [i \in 1..(U16_MAX + 1) |-> 97]

\* the longest buffer that is cut short at every position
MaxCutLen == 1024

\* the values put through the codec, each with its type
CodecValues ==
    {<< <<"u8">>, v>> : v \in {0, 255}}
      \cup {<< <<"u16">>, v>> : v \in {0, 258, U16_MAX}}
      \cup {<< <<"u32">>, v>> : v \in {0, 16909060, 2147483647}}
      \cup {<< <<"i32">>, v>> : v \in {0, 46, -1, (-2147483647) - 1}}
      \cup {<< <<"Color">>, v>> : v \in {ColorDefault, <<37, 54, 126>>}}
      \cup {<< <<"String">>, v>> :
                v \in {<<>>, <<97>>, <<97, 0, 98>>, LongString}}
      \cup {<< <<"Vec", <<"Color">> >>, v>> : v \in ColorVecs(2)}
      \cup {<< <<"Vec", <<"String">> >>, v>> : v \in {<<>>, << <<>>, <<97>> >>}}
      \cup {<< <<"Array", 3, <<"u8">> >>, v>> : v \in {<<0, 1, 2>>}}
      \cup UNION {{<< <<"Enum", e>>, v>> : v \in Variants(e)} :
                     e \in DOMAIN Discriminants}
      \cup {<< <<"Flags", "ModeFlag">>, v>> : v \in {0, 2, 14, 154, 1023}}
      \cup {<< <<"Flags", "ZoneFlags">>, v>> : v \in {0, 1}}
      \cup {<< <<"Tuple", << <<"u32">>, <<"Vec", <<"String">> >> >> >>, v>> :
                v \in {<<0, <<>> >>, <<7, << <<97>> >> >>}}
      \cup {<< <<"Tuple", << <<"i32">>, <<"Color">> >> >>, v>> :
                v \in {<<-2, Red>>}}
      \cup {<< <<"Option", 3, <<"u32">> >>, v>> : v \in {None, Some(1024)}}
      \cup {<< <<"ModeData">>, v>> : v \in {ModeTest, ModeBare, ModeOld}}

\* buffers that come from the server, each with the type it is read as
CodecReceived ==
    {<< <<"u16">>, <<1>> >>, << <<"u32">>, <<1, 2, 3, 4, 5>> >>,
     << <<"Enum", "Direction">>, write_u32(6)>>,
     << <<"Enum", "DeviceType">>, write_u32(15)>>,
     << <<"Enum", "ZoneType">>, write_u32(3)>>,
     << <<"Enum", "ColorMode">>, write_u32(4)>>,
     << <<"Enum", "PacketId">>, write_u32(2)>>,
     << <<"Flags", "ModeFlag">>, write_u32(1024)>>,
     << <<"Flags", "ZoneFlags">>, write_u32(3)>>,
     << <<"String">>, <<2, 0, 255, 0>> >>,
     << <<"String">>, <<0, 0, 97>> >>,
     << <<"String">>, <<9, 0, 97, 0>> >>,
     << <<"Vec", <<"u8">> >>, <<3, 0, 1>> >>,
     << <<"Array", 3, <<"u8">> >>, <<0, 1, 2, 3, 4, 5>> >>,
     << <<"Color">>, <<37, 54, 126, 9, 1>> >>,
     << <<"Option", 3, <<"u32">> >>, write_u32(7)>>}

\* u32 values handed to TryFrom<u32>
RawU32s == 0..16 \cup {39, 40, 1102, 1103}

\* the record of a codec call: the call, its result, the index of the
\* message before it, and whether it was the first read of the message
CodecCall(op, e, v, from, first) ==
    [op |-> op, err |-> e, val |-> v, from |-> from, first |-> first]

CodecInit ==
    /\ \E version \in CodecVersions :
          \/ \E tv \in CodecValues :
                /\ cty = tv[1]
                /\ cx = tv[2]
                /\ cstage = "value"
                /\ cmsg = ReceivedMessage(<<>>, version)
          \/ \E tb \in CodecReceived :
                /\ cty = tb[1]
                /\ cx = <<>>
                /\ cstage = "received"
                /\ cmsg = ReceivedMessage(tb[2], version)
    /\ clast = CodecCall("new", "Ok", <<>>, 0, FALSE)
    /\ creads = 0
    /\ LedParked
    /\ GroupParked
    /\ SessionParked
    /\ CallersParked

\* WriteMessage::new(version).write_value(&x) and to_received_msg
Encode ==
    /\ cstage = "value"
    /\ \E w \in {serialize(cty, cx, cmsg.protocol_version)} :
          /\ cmsg' = ReceivedMessage(IF w.err = "Ok" THEN w.val ELSE <<>>,
                                     cmsg.protocol_version)
          /\ cstage' = IF w.err = "Ok" THEN "encoded" ELSE "failed"
          /\ clast' = CodecCall("encode", w.err, <<>>, 0, FALSE)
    /\ UNCHANGED <<cty, cx, creads>>
    /\ UNCHANGED <<ledVars, groupVars, sessionVars, callerVars>>

\* the buffer reaches the reader cut short: a strict prefix of it
Cut ==
    /\ cstage = "encoded"
    /\ creads = 0
    /\ Len(cmsg.buf) <= MaxCutLen
    /\ \E k \in 0..(Len(cmsg.buf) - 1) :
          cmsg' = ReceivedMessage(SubSeq(cmsg.buf, 1, k), cmsg.protocol_version)
    /\ cstage' = "cut"
    /\ clast' = CodecCall("cut", "Ok", <<>>, 0, FALSE)
    /\ UNCHANGED <<cty, cx, creads>>
    /\ UNCHANGED <<ledVars, groupVars, sessionVars, callerVars>>

\* the effect of one read with outcome r on the message
CodecRead(op, r) ==
    /\ cmsg' = r.msg
    /\ clast' = CodecCall(op, r.err, r.val, cmsg.idx, creads = 0)
    /\ creads' = creads + 1
    /\ UNCHANGED <<cty, cx, cstage>>
    /\ UNCHANGED <<ledVars, groupVars, sessionVars, callerVars>>

CanRead == cstage \in {"encoded", "cut", "received"} /\ creads < MaxReads

\* ReceivedMessage::read_value::<T>()
Decode ==
    /\ CanRead
    /\ CodecRead("decode", deserialize(cty, cmsg))

ReadU8 ==
    /\ CanRead
    /\ CodecRead("read_u8", read_u8(cmsg))

ReadU16 ==
    /\ CanRead
    /\ CodecRead("read_u16", read_u16(cmsg))

\* (the u32 read is one the integers of the model hold: below 2^31)
ReadU32 ==
    /\ CanRead
    /\ Len(available_buf(cmsg)) >= 4 => available_buf(cmsg)[4] < 128
    /\ CodecRead("read_u32", read_u32(cmsg))

\* std::io::Read::read and read_exact into a buffer of n bytes
ReadBytes ==
    /\ CanRead
    /\ \E n \in 0..MaxReadLen : CodecRead("read", msg_read(cmsg, n))

ReadExact ==
    /\ CanRead
    /\ \E n \in 0..MaxReadLen : CodecRead("read_exact", msg_read_exact(cmsg, n))

\* Enum::try_from(value) and u32::from(&variant) for the enum of the value
TryFrom ==
    /\ cstage = "value"
    /\ cty[1] = "Enum"
    /\ \E value \in RawU32s :
          \E r \in {try_from(cty[2], value)} :
             clast' = [op |-> "try_from", err |-> r.err, val |-> r.val,
                       from |-> value, first |-> FALSE, msg |-> r.msg]
    /\ UNCHANGED <<cty, cx, cmsg, cstage, creads>>
    /\ UNCHANGED <<ledVars, groupVars, sessionVars, callerVars>>

U32From ==
    /\ cstage = "value"
    /\ cty[1] = "Enum"
    /\ clast' = CodecCall("u32_from", "Ok", u32_from(cty[2], cx), 0, FALSE)
    /\ UNCHANGED <<cty, cx, cmsg, cstage, creads>>
    /\ UNCHANGED <<ledVars, groupVars, sessionVars, callerVars>>

\* ModeData::direction on the mode held
Direction ==
    /\ cstage = "value"
    /\ cty = <<"ModeData">>
    /\ clast' = CodecCall("direction", "Ok", direction(cx), 0, FALSE)
    /\ UNCHANGED <<cty, cx, cmsg, cstage, creads>>
    /\ UNCHANGED <<ledVars, groupVars, sessionVars, callerVars>>

CodecNext ==
    \/ Encode
    \/ Cut
    \/ Decode
    \/ ReadU8
    \/ ReadU16
    \/ ReadU32
    \/ ReadBytes
    \/ ReadExact
    \/ TryFrom
    \/ U32From
    \/ Direction

SpecCodec == CodecInit /\ [][CodecNext]_vars

(***************************************************************************)
(* Vocabulary of the codec properties.                                     *)
(***************************************************************************)
\* the last call read the value of type cty off a message no read had
\* touched, and that message is the whole encoding of cx
DecodedFirst == clast.op = "decode" /\ clast.first
DecodedWhole == DecodedFirst /\ cstage = "encoded"

\* the bytes the last read moved over
Consumed == cmsg.idx - clast.from

(***************************************************************************)
(* C22  ProtocolOption<3, u32> below version 3.  Serializing any value,    *)
(* present or not, leaves the WriteMessage empty, and a ModeData takes     *)
(* the 12 bytes of its three brightness fields less than at version 3;     *)
(* deserializing returns Ok(UnsupportedVersion) and leaves the index of    *)
(* the message where it was, whatever bytes the message holds.             *)
(***************************************************************************)
C22_BelowVersion ==
    /\ (cty[1] = "Option" /\ cmsg.protocol_version < cty[2]) =>
          /\ clast.op = "encode" => clast.err = "Ok" /\ cmsg.buf = <<>>
          /\ clast.op = "decode" =>
                /\ clast.err = "Ok"
                /\ clast.val = None
                /\ Consumed = 0
    /\ (cty[1] = "ModeData" /\ cmsg.protocol_version < 3
        /\ clast.op = "encode" /\ cx.brightness # None) =>
          /\ clast.err = "Ok"
          /\ Len(cmsg.buf) + 12 = Len(serialize(cty, cx, 3).val)

\* a buffer that holds a u32 was read as ProtocolOption<3, u32> at a
\* version below 3
C22_Witness ==
    /\ cty = <<"Option", 3, <<"u32">> >>
    /\ cmsg.protocol_version < 3
    /\ cmsg.buf = write_u32(7)
    /\ clast.op = "decode"
    /\ clast.val = None
    /\ cmsg.idx = 0

\* what T::deserialize does on the message the last read started from
Bare == deserialize(cty[3], [cmsg EXCEPT !.idx = clast.from])

(***************************************************************************)
(* C23  As stated: at a version of at least 3, a ProtocolOption<3, u32>    *)
(* encodes and decodes as the u32 does, and every value of the field,      *)
(* UnsupportedVersion included, is returned by decoding its encoding.      *)
(***************************************************************************)
C23_EveryValueRoundTrips ==
    (cty[1] = "Option" /\ cmsg.protocol_version >= cty[2] /\ DecodedWhole) =>
        /\ clast.err = "Ok"
        /\ clast.val = cx

(***************************************************************************)
(* C23  Amended: at a version of at least 3, a ProtocolOption<3, u32>      *)
(* that holds a value (Some(v)) serializes to the bytes of v; reading a    *)
(* ProtocolOption<3, u32> fails or succeeds as reading a u32 does and      *)
(* moves the index as far; and decoding the encoding of Some(v) returns    *)
(* Some(v) and uses all its bytes.  UnsupportedVersion serializes to no    *)
(* bytes, and reading it back is the ProtocolError of an empty buffer.     *)
(***************************************************************************)
C23_PresentValueAsBare ==
    (cty[1] = "Option" /\ cmsg.protocol_version >= cty[2]) =>
        /\ (clast.op = "encode" /\ cx # None) =>
              /\ clast.err = "Ok"
              /\ cmsg.buf = serialize(cty[3], cx[1], cmsg.protocol_version).val
        /\ (clast.op = "encode" /\ cx = None) =>
              /\ clast.err = "Ok"
              /\ cmsg.buf = <<>>
        /\ clast.op = "decode" =>
              /\ clast.err = Bare.err
              /\ cmsg.idx = Bare.msg.idx
              /\ clast.err = "Ok" => clast.val = Some(Bare.val)
        /\ (DecodedWhole /\ cx # None) =>
              /\ clast.err = "Ok"
              /\ clast.val = cx
              /\ Consumed = Len(cmsg.buf)
              /\ Consumed = 4
        /\ (DecodedWhole /\ cx = None) => clast.err = "ProtocolError"

\* Some(1024) was serialized at a version of at least 3 and read back
C23_Witness ==
    /\ cty = <<"Option", 3, <<"u32">> >>
    /\ cmsg.protocol_version >= 3
    /\ cx = Some(1024)
    /\ DecodedWhole
    /\ clast.val = Some(1024)
    /\ cmsg.buf = write_u32(1024)

\* the types that have both SerToBuf and DeserFromBuf and are read back
\* as they were written
RoundTripTypes ==
    {"u8", "u16", "u32", "i32", "Color", "String", "Vec", "Enum", "Flags",
     "Tuple", "ModeData"}

\* the fields of a ModeData that are on the wire at a version: all of
\* ModeDataWire but the ProtocolOption fields the version leaves out (id
\* is never on the wire)
WireFields(mode, version) ==
    [f \in {ModeDataWire[i][1] : i \in
               {j \in DOMAIN ModeDataWire :
                   ModeDataWire[j][2][1] = "Option"
                      => version >= ModeDataWire[j][2][2]}} |-> mode[f]]

\* a ModeData a session of the version can hold: its ProtocolOption
\* fields are present when the version has them; a string whose length
\* with the terminator a u16 holds
ValidAt(t, x, version) ==
    /\ t[1] = "ModeData" =>
          \A i \in DOMAIN ModeDataWire :
              (ModeDataWire[i][2][1] = "Option"
               /\ version >= ModeDataWire[i][2][2])
                  => x[ModeDataWire[i][1]] # None
    /\ t[1] = "String" => Len(x) + 1 <= U16_MAX

(***************************************************************************)
(* C24  Codec round-trip.  For a value of u8, u16, u32, i32, Color,        *)
(* String, Vec<T>, an enum, a flag set, a tuple or ModeData, serialized    *)
(* at a version and read back at that version from the bytes written: the  *)
(* read succeeds, returns the value (for ModeData, the fields that are on  *)
(* the wire at the version) and ends at the end of the buffer.             *)
(***************************************************************************)
C24_RoundTrip ==
    (DecodedWhole /\ cty[1] \in RoundTripTypes
     /\ ValidAt(cty, cx, cmsg.protocol_version)) =>
        /\ clast.err = "Ok"
        /\ clast.from = 0
        /\ cmsg.idx = Len(cmsg.buf)
        /\ IF cty[1] = "ModeData"
           THEN WireFields(clast.val, cmsg.protocol_version)
                    = WireFields(cx, cmsg.protocol_version)
           ELSE clast.val = cx

\* the mode of test_write_001 was written and read back at the default
\* protocol version
C24_Witness ==
    /\ cty = <<"ModeData">>
    /\ DecodedWhole
    /\ clast.err = "Ok"
    /\ cx = ModeTest
    /\ cmsg.protocol_version = DEFAULT_PROTOCOL
    /\ clast.val.name = ModeTest.name
    /\ clast.val.brightness = Some(50)
    /\ clast.val.colors = ModeTest.colors
    /\ clast.val.id = "u32::MAX"

(***************************************************************************)
(* C25  Truncation.  Reading a value off a strict prefix of its encoding   *)
(* returns an error, whatever the type of the value.                       *)
(***************************************************************************)
C25_PrefixFails ==
    (cstage = "cut" /\ DecodedFirst) => clast.err # "Ok"

\* the same for every type but the fixed-size array, whose serialize
\* writes a u16 count that its deserialize does not read
PrefixFailsButArray ==
    (cstage = "cut" /\ DecodedFirst /\ cty[1] # "Array") => clast.err # "Ok"

(***************************************************************************)
(* C26  Truncated input is a protocol error.  A read that fails because    *)
(* the buffer ends too early (a strict prefix of an encoding, or a buffer  *)
(* of the server that stops short of what its length prefix announces)     *)
(* returns ProtocolError, never CommunicationError.                        *)
(***************************************************************************)
C26_TruncationIsProtocolError ==
    (clast.op = "decode" /\ clast.err # "Ok") =>
        clast.err = "ProtocolError"

\* the same for every type that holds no string
NoString(t) ==
    /\ t[1] \notin {"String", "ModeData", "PluginData"}
    /\ t[1] = "Vec" => t[2][1] # "String"
    /\ t[1] = "Tuple" =>
          \A i \in DOMAIN t[2] :
              /\ t[2][i][1] # "String"
              /\ t[2][i][1] = "Vec" => t[2][i][2][1] # "String"

TruncationIsProtocolErrorButString ==
    (clast.op = "decode" /\ clast.err # "Ok" /\ NoString(cty)) =>
        clast.err = "ProtocolError"

(***************************************************************************)
(* C27  Cursor bound.  Whatever reads were made on a ReceivedMessage       *)
(* (read_u8, read_u16, read_u32, read, read_exact, read_value of any       *)
(* type; successful or not), its index lies between 0 and the length of    *)
(* its buffer and never moves back; read_u8, read_u16 and read_u32 move    *)
(* it by 1, 2 and 4 when they succeed and leave it when they fail; the     *)
(* bytes a byte read returns are the bytes of the buffer between the       *)
(* index before and the index after.                                       *)
(***************************************************************************)
C27_CursorBound ==
    cstage \in {"encoded", "cut", "received"} =>
        /\ 0 <= cmsg.idx
        /\ cmsg.idx <= Len(cmsg.buf)
        /\ clast.op \in {"decode", "read_u8", "read_u16", "read_u32", "read",
                         "read_exact"} =>
              /\ 0 <= clast.from
              /\ clast.from <= cmsg.idx
        /\ clast.op \in {"read_u8", "read_u16", "read_u32"} =>
              Consumed = IF clast.err # "Ok" THEN 0
                         ELSE CASE clast.op = "read_u8" -> 1
                                [] clast.op = "read_u16" -> 2
                                [] clast.op = "read_u32" -> 4
        /\ (clast.op \in {"read", "read_exact"} /\ clast.err = "Ok") =>
              clast.val = SubSeq(cmsg.buf, clast.from + 1, cmsg.idx)

\* a read asked for more bytes than the message had left, after an
\* earlier read, and the index stopped at the end of the buffer
C27_Witness ==
    /\ cstage = "received"
    /\ clast.op = "read"
    /\ clast.from > 0
    /\ Len(clast.val) = 1
    /\ cmsg.idx = Len(cmsg.buf)
    /\ creads = 2

\* the discriminants of an enum
DiscriminantsOf(enum) == {u32_from(enum, v) : v \in Variants(enum)}

(***************************************************************************)
(* C28  Closed enumerations.  For DeviceType, ZoneType, ColorMode,         *)
(* Direction and PacketId: try_from of the u32 of a variant is that        *)
(* variant, no other variant has the same u32, try_from of a discriminant  *)
(* is a variant with that u32, and try_from of any other number is the     *)
(* ProtocolError "Unknown discriminant value {value} for {enum}"; reading  *)
(* the enum off a buffer that holds such a number is a ProtocolError.      *)
(***************************************************************************)
C28_ClosedEnums ==
    cty[1] = "Enum" =>
        /\ clast.op = "u32_from" =>
              /\ try_from(cty[2], clast.val).err = "Ok"
              /\ try_from(cty[2], clast.val).val = cx
              /\ \A w \in Variants(cty[2]) \ {cx} :
                    u32_from(cty[2], w) # clast.val
        /\ clast.op = "try_from" =>
              IF clast.from \in DiscriminantsOf(cty[2])
              THEN /\ clast.err = "Ok"
                   /\ clast.val \in Variants(cty[2])
                   /\ u32_from(cty[2], clast.val) = clast.from
              ELSE /\ clast.err = "ProtocolError"
                   /\ clast.msg = <<"Unknown discriminant value", clast.from,
                                    "for", cty[2]>>
        /\ (cstage = "received" /\ DecodedFirst) =>
              IF from_le_bytes(cmsg.buf) \in DiscriminantsOf(cty[2])
              THEN clast.err = "Ok"
              ELSE clast.err = "ProtocolError" /\ Consumed = 4

\* Direction::try_from(6) was refused
C28_Witness ==
    /\ cty = <<"Enum", "Direction">>
    /\ clast.op = "try_from"
    /\ clast.from = 6
    /\ clast.err = "ProtocolError"
    /\ clast.msg = <<"Unknown discriminant value", 6, "for", "Direction">>

\* the mode has at least one of the direction bits HasDirectionLR,
\* HasDirectionUD, HasDirectionHV
AnyDirectionBit(mode) ==
    \E f \in {"HasDirectionLR", "HasDirectionUD", "HasDirectionHV"} :
        BitAnd(mode.flags, Flags.ModeFlag[f]) # 0

(***************************************************************************)
(* C29  Mode direction accessor.  ModeData::direction() returns the        *)
(* direction of the mode when its flags have at least one direction bit    *)
(* and None when they have none.                                           *)
(***************************************************************************)
C29_DirectionWhenAnyBit ==
    clast.op = "direction" =>
        clast.val = IF AnyDirectionBit(cx) THEN Some(cx.direction) ELSE None

\* what does hold: the direction is returned when all three bits are set
DirectionWhenAllBits ==
    clast.op = "direction" =>
        clast.val = IF BitAnd(cx.flags, 14) = 14 THEN Some(cx.direction)
                    ELSE None

(***************************************************************************)
(* C30  Sub-packet length.  Every whole packet of kind update-leds         *)
(* (1050), update-zone-leds (1051), update-mode (1101), save-mode (1102)   *)
(* or add-segment (1002) on the stream has a payload that starts with a    *)
(* u32 equal to the number of bytes that follow it plus 4, which is the    *)
(* packet_size of the packet's header; in an update-leds payload the       *)
(* bytes that follow are a u16 count and 4 bytes for each colour counted.  *)
(***************************************************************************)
WrappedKinds ==
    {PacketId.RGBControllerUpdateLeds, PacketId.RGBControllerUpdateZoneLeds,
     PacketId.RGBControllerUpdateMode, PacketId.RGBControllerSaveMode,
     PacketId.RGBControllerAddSegment}

\* the bytes after the length field of a payload
Contents(payload) == SubSeq(payload, 5, Len(payload))

C30_SubPacketLength ==
    \A k \in WrappedKinds :
        \A i \in SentPackets(k) :
            /\ Len(Tx[i + 1].bytes) >= 4
            /\ SubSeq(Tx[i + 1].bytes, 1, 4)
                  = write_u32(Len(Contents(Tx[i + 1].bytes)) + 4)
            /\ SubSeq(Tx[i + 1].bytes, 1, 4) = Wire(Tx[i].bytes).packet_size
            /\ k = PacketId.RGBControllerUpdateLeds =>
                  Len(Contents(Tx[i + 1].bytes))
                     = 2 + 4 * from_le_bytes(SubSeq(Tx[i + 1].bytes, 5, 6))

\* update_zone_leds wrote two colours for zone 1: a payload of 18 bytes
\* whose length field and header both say 18
C30_Witness ==
    /\ slast.op = "update_zone_leds"
    /\ slast.wrote
    /\ Tx[Len(Tx)].bytes
          = write_u32(18) \o write_u32(1) \o write_u16(2)
               \o <<255, 0, 0, 0>> \o <<0, 255, 0, 0>>
    /\ Wire(Tx[Len(Tx) - 1].bytes).packet_size = write_u32(18)
    /\ Wire(Tx[Len(Tx) - 1].bytes).packet_id
          = write_u32(PacketId.RGBControllerUpdateZoneLeds)

(***************************************************************************)
(* C31  Controller snapshot.  Every ControllerData that get_controller(id) *)
(* returns has id as its id, num_leds equal to the sum of the leds_count   *)
(* of its zones, and zone i, mode i and segment j of every zone carrying   *)
(* their position in their list (counted from 0) as id.                    *)
(***************************************************************************)
Numbered(xs) == \A i \in DOMAIN xs : xs[i].id = i - 1

GotController == slast.op = "get_controller" /\ slast.res = "Ok"

C31_Snapshot ==
    GotController =>
        /\ slast.val.id = slast.device_id
        /\ slast.val.num_leds = sum_leds_count(slast.val.zones)
        /\ Numbered(slast.val.zones)
        /\ Numbered(slast.val.modes)
        /\ \A i \in DOMAIN slast.val.zones :
              slast.val.zones[i].segments # None =>
                  Numbered(slast.val.zones[i].segments[1])

\* controller 1 is the keyboard at version 4: two modes, two zones of 2
\* and 3 LEDs, the first zone with two segments
C31_Witness ==
    /\ GotController
    /\ slast.device_id = 1
    /\ slast.val.id = 1
    /\ Len(slast.val.modes) = 2
    /\ Len(slast.val.zones) = 2
    /\ slast.val.num_leds = 5
    /\ slast.val.zones[1].segments # None
    /\ Len(slast.val.zones[1].segments[1]) = 2
    /\ slast.val.zones[1].segments[1][2].id = 1
    /\ slast.val.zones[2].id = 1
    /\ slast.val.modes[2].id = 1
    /\ slast.val.flags = None

(***************************************************************************)
(* C32  Abandoned request.  When a request is abandoned after its packet   *)
(* was written and before anything of its response was read, no caller     *)
(* holds the guard for it any more and it never returns; nothing is taken  *)
(* from the socket, so the response, once the server has sent it, is the   *)
(* first thing on the socket; every request made on the session afterwards *)
(* returns Ok with the value of the response to the request written just   *)
(* before it, the first of them with the value of the abandoned request.   *)
(***************************************************************************)
\* the numbers of the requests written whole, in the order of writing
RECURSIVE RequestTags(_)
RequestTags(chunks) ==
    IF chunks = <<>> THEN <<>>
    ELSE IF Head(chunks).part = "payload" /\ Len(Head(chunks).bytes) = 4
    THEN <<Head(chunks).bytes[1]>> \o RequestTags(Tail(chunks))
    ELSE RequestTags(Tail(chunks))

Written == RequestTags(Tx)

\* the response of the server to the request with number t
ResponseTo(t) ==
    header_bytes(Header(NO_DEVICE_ID, PacketId.RequestControllerCount, 4))
        \o write_u32(t)

\* the events at which a request was abandoned between its write and its
\* read
AbandonedUnread ==
    {k \in 2..Len(events) :
        /\ events[k].ev = "abandon"
        /\ events[k - 1].ev = "write_payload"
        /\ events[k - 1].tag = events[k].tag}

C32_StaleResponse ==
    \A k \in AbandonedUnread :
        /\ \A c \in Callers : callers[c].tag # events[k].tag
        /\ guard # 0 => callers[guard].tag # events[k].tag
        /\ \A r \in returned : r.tag # events[k].tag
        /\ (k = Len(events) /\ served = Len(Bytes(Tx))) =>
              Rx = ResponseTo(events[k].tag)
        /\ \A r \in returned :
              \A i \in 2..Len(Written) :
                  (/\ r.op = "request"
                   /\ Written[i] = r.tag
                   /\ \E j \in 1..(i - 1) : Written[j] = events[k].tag) =>
                      r.err = "Ok" /\ r.val = Written[i - 1]

\* the first request was abandoned unread; the second and the third
\* request returned the numbers of the first and of the second
C32_Witness ==
    /\ AbandonedUnread # {}
    /\ Written = <<1, 2, 3>>
    /\ \E r2, r3 \in returned :
          /\ r2.tag = 2 /\ r2.err = "Ok" /\ r2.val = 1
          /\ r3.tag = 3 /\ r3.err = "Ok" /\ r3.val = 2
          /\ r2.caller # r3.caller

(***************************************************************************)
(* Progress of the callers.  No call is abandoned; the server answers      *)
(* every request it has received, with the response or with a response     *)
(* whose payload is too short to decode; the mutex hands the guard to      *)
(* every waiting caller (tokio's Mutex is fair); a caller that holds the   *)
(* guard goes on with its call.                                            *)
(***************************************************************************)
\* number of calls made on the session while progress is observed
MaxProgressCalls == 2

StartRequest ==
    /\ issued < MaxProgressCalls
    /\ CallRequest

StartWrite ==
    /\ issued < MaxProgressCalls
    /\ CallWrite

\* the server answers a request with a payload of two bytes
ServeShort ==
    \E h \in {header_read(SubSeq(Bytes(proto.stream.tx), served + 1,
                                 Len(Bytes(proto.stream.tx))))} :
        /\ h.err = "Ok"
        /\ Len(h.rest) >= h.header.packet_size
        /\ h.header.packet_id = PacketId.RequestControllerCount
        /\ served' = served + 16 + h.header.packet_size
        /\ proto' = [proto EXCEPT !.stream.rx =
                        @ \o header_bytes([h.header EXCEPT !.packet_size = 2])
                          \o <<1, 0>>]
        /\ UNCHANGED <<callers, guard, events, returned, abandoned, issued>>
        /\ UNCHANGED <<ledVars, groupVars, codecVars, sphase, server_max, slast,
                     sops>>

ProgressNext ==
    \/ StartRequest
    \/ StartWrite
    \/ Lock
    \/ WriteHeader
    \/ WritePayload
    \/ ReadHeader
    \/ ReadPayload
    \/ Serve
    \/ ServeShort

SpecProgress ==
    /\ CallersInit
    /\ [][ProgressNext]_vars
    /\ WF_vars(Serve \/ ServeShort)
    /\ \A c \in Callers : SF_vars(Lock /\ guard' = c)
    /\ WF_vars(WriteHeader)
    /\ WF_vars(WritePayload)
    /\ WF_vars(ReadHeader)
    /\ WF_vars(ReadPayload)

(***************************************************************************)
(* C33  Progress.  With a server that answers, a fair lock and no          *)
(* abandoned call, every call that was started returns, with a value or    *)
(* with an error, and whoever holds the guard gives it up.  As long as a   *)
(* caller waits for a response that has not come, every stream operation   *)
(* and every return is its own: the other callers stay idle or waiting     *)
(* for the guard.                                                          *)
(***************************************************************************)
\* caller c has written its request and the response has not arrived
Unanswered(c) ==
    /\ callers[c].at = "stream"
    /\ guard = c
    /\ callers[c].next = "read_header"
    /\ Len(Rx) < 16

OthersBlocked ==
    \A c \in Callers :
        Unanswered(c) =>
            /\ events' = events
            /\ returned' = returned
            /\ guard' = c
            /\ \A d \in Callers \ {c} : callers'[d].at \in {"idle", "lock"}

C33_Progress ==
    /\ \A t \in 1..MaxProgressCalls :
          (issued >= t) ~> (\E r \in returned : r.tag = t)
    /\ \A c \in Callers : (guard = c) ~> (guard = 0)
    /\ [][OthersBlocked]_vars

\* two callers made a request each and both returned, the first with an
\* error and the second with its value, and the guard is free
C33_Witness ==
    /\ issued = 2
    /\ Cardinality({r.tag : r \in returned}) = 2
    /\ \E r, s \in returned :
          /\ r.err = "ProtocolError"
          /\ s.err = "Ok" /\ s.op = "request" /\ s.tag > r.tag
          /\ s.caller # r.caller
    /\ guard = 0

(***************************************************************************)
(* C34  Rejected header.  When read_header rejects the 16 bytes it read    *)
(* (wrong magic value, unknown kind, another kind or another device) and   *)
(* the payload those bytes announce has arrived, the payload has left the  *)
(* socket too: what is left is what followed the rejected packet.          *)
(***************************************************************************)
\* largest payload the server of the model sends
MaxPayloadLen == 512

\* the last call read 16 bytes and refused them as a header
RejectedAtHeader ==
    /\ ReadAHeader
    /\ ~slast.read.accepted
    /\ slast.res = "ProtocolError"

C34_RejectedAtBoundary ==
    RejectedAtHeader =>
        \A n \in 0..MaxPayloadLen :
            (/\ SeenHeader.packet_size = write_u32(n)
             /\ Len(slast.seen) >= 16 + n) =>
                Rx = SubSeq(slast.seen, 16 + n + 1, Len(slast.seen))

\* what the code does: the 16 bytes are gone and everything behind them,
\* the payload of the rejected packet first, is still on the socket
RejectedLeavesPayload ==
    RejectedAtHeader => Rx = SubSeq(slast.seen, 17, Len(slast.seen))

(***************************************************************************)
(* C35  Failed write.  A call that did not write its packet and returned   *)
(* an error other than CommunicationError (its payload could not be        *)
(* serialized, or the call was refused before) left the bytes written to   *)
(* the socket as they were: no header and no payload was added.  Every     *)
(* payload written to the socket follows a header of 16 bytes whose        *)
(* packet_size is the number of bytes of the payload.                      *)
(***************************************************************************)
C35_FailedWrite ==
    /\ (~slast.wrote /\ slast.res \notin {"Ok", "CommunicationError"}) =>
          Tx = slast.pre.stream.tx
    /\ \A i \in 1..Len(Tx) :
          Tx[i].part = "payload" =>
              /\ i > 1
              /\ Tx[i - 1].part = "header"
              /\ Len(Tx[i - 1].bytes) = 16
              /\ Wire(Tx[i - 1].bytes).packet_size
                    = write_u32(Len(Tx[i].bytes))

\* update_leds with 65536 colours on a connected session: ProtocolError,
\* and the request of connect is all that was ever written
C35_Witness ==
    /\ slast.op = "update_leds"
    /\ slast.res = "ProtocolError"
    /\ ~slast.wrote
    /\ Tx = slast.pre.stream.tx
    /\ Len(Tx) = 2

(***************************************************************************)
(* C36  Requested version.  A session that connect_to(addr, v) has just    *)
(* connected to a server whose maximum is S has min(v, S) as protocol_id   *)
(* and as the version of its stream, so never more than v.                 *)
(***************************************************************************)
\* the version connect_to was called with: ProtocolStream::connect stores
\* it in the stream before new() negotiates
Requested == slast.pre.stream.protocol_version

JustConnected == slast.op = "new" /\ sphase = "connected"

C36_NeverAboveRequested ==
    JustConnected =>
        /\ proto.protocol_id = Min(Requested, server_max)
        /\ proto.stream.protocol_version = Min(Requested, server_max)
        /\ proto.protocol_id <= Requested

\* what the code does: the requested version is overwritten by
\* min(DEFAULT_PROTOCOL, S)
RequestedIsIgnored ==
    JustConnected =>
        /\ proto.protocol_id = Min(DEFAULT_PROTOCOL, server_max)
        /\ proto.stream.protocol_version = proto.protocol_id

(***************************************************************************)
(* C37  Presence matches the version.  In the ControllerData a caller got  *)
(* from the session, also after set_brightness and replace were applied    *)
(* to it, the brightness fields of every mode are present exactly when     *)
(* the session's version is at least 3, the segments of every zone         *)
(* exactly when it is at least 4, and the flags of every zone, the flags   *)
(* of the controller and its LED alternate names exactly when it is at     *)
(* least 5.                                                                *)
(***************************************************************************)
\* the option is present exactly from version VER on
PresentFrom(opt, VER) == (opt # None) <=> (proto.protocol_id >= VER)

C37_Presence ==
    Holding =>
        /\ \A i \in DOMAIN slast.val.modes :
              /\ PresentFrom(slast.val.modes[i].brightness_min, 3)
              /\ PresentFrom(slast.val.modes[i].brightness_max, 3)
              /\ PresentFrom(slast.val.modes[i].brightness, 3)
        /\ \A i \in DOMAIN slast.val.zones :
              /\ PresentFrom(slast.val.zones[i].segments, 4)
              /\ PresentFrom(slast.val.zones[i].flags, 5)
        /\ PresentFrom(slast.val.led_alt_names, 5)
        /\ PresentFrom(slast.val.flags, 5)

\* at version 4 the brightness of the first mode was set to 7 and replace
\* was called on the absent flags of the first zone, which has segments
C37_Witness ==
    /\ Holding
    /\ slast.op = "replace"
    /\ proto.protocol_id = 4
    /\ Len(slast.val.modes) = 2
    /\ slast.val.modes[1].brightness = Some(7)
    /\ slast.val.zones[1].segments # None
    /\ slast.val.zones[1].flags = None
    /\ slast.val.flags = None

(***************************************************************************)
(* C38  Length prefixes.  Serializing a Vec, a slice or a string either    *)
(* fails or writes, first, a u16 that is the number of elements of the     *)
(* value (for a string: its bytes and the terminator); a value with more   *)
(* than u16::MAX elements, or a string of u16::MAX bytes or more, is not   *)
(* serialized.                                                             *)
(***************************************************************************)
\* the value of a counted type was serialized last
EncodedCounted ==
    /\ clast.op = "encode"
    /\ cty[1] \in {"Vec", "Slice", "String"}

\* the number the length prefix stands for
Counted == IF cty[1] = "String" THEN Len(cx) + 1 ELSE Len(cx)

C38_PrefixAgrees ==
    (EncodedCounted /\ clast.err = "Ok") =>
        /\ Counted <= U16_MAX
        /\ from_le_bytes(SubSeq(cmsg.buf, 1, 2)) = Counted

\* what the code does: the prefix is the count modulo 2^16
PrefixWraps ==
    (EncodedCounted /\ clast.err = "Ok") =>
        from_le_bytes(SubSeq(cmsg.buf, 1, 2)) = Counted % (U16_MAX + 1)

(***************************************************************************)
(* C39  Profile names.  The payload a successful load_profile,             *)
(* save_profile or delete_profile wrote is, for one name, the payload      *)
(* each of the three calls writes for that name.                           *)
(***************************************************************************)
ProfileOps == {"load_profile", "save_profile", "delete_profile"}

\* a call that carries a profile name wrote its packet last
WroteProfileName == slast.op \in ProfileOps /\ slast.res = "Ok"

\* the payload that the call with outcome r added to the socket
PayloadWritten(r) == r.p.stream.tx[Len(r.p.stream.tx)].bytes

C39_SameWireForm ==
    WroteProfileName =>
        \E name \in Names :
           /\ Tx[Len(Tx)].bytes
                 = PayloadWritten(load_profile(slast.pre, name, "none"))
           /\ Tx[Len(Tx)].bytes
                 = PayloadWritten(save_profile(slast.pre, name, "none"))
           /\ Tx[Len(Tx)].bytes
                 = PayloadWritten(delete_profile(slast.pre, name, "none"))

\* what the code does: save_profile and delete_profile write the same
\* payload, the length as u16 and then what load_profile writes
LoadProfileIsRaw ==
    WroteProfileName =>
        \E name \in Names :
           \E raw \in {PayloadWritten(load_profile(slast.pre, name, "none"))},
              str \in {PayloadWritten(save_profile(slast.pre, name, "none"))} :
              /\ str = PayloadWritten(delete_profile(slast.pre, name, "none"))
              /\ str = write_u16(Len(raw)) \o raw
              /\ Tx[Len(Tx)].bytes
                    = IF slast.op = "load_profile" THEN raw ELSE str

(***************************************************************************)
(* C40  Oversize warning.  A queuing call that reached its test warned     *)
(* exactly when it was given more colours than its target (controller,     *)
(* zone or segment) has LEDs, or, for one LED, an index at or beyond the   *)
(* LEDs of the controller; as many colours as the target has LEDs raise    *)
(* no warning.                                                             *)
(***************************************************************************)
\* the LEDs of the target of the last batch, when the call has reached it
TargetOfBatch ==
    CASE last.op = "add_set_leds" -> Some(controller.num_leds)
      [] last.op = "add_set_zone_leds" /\ ValidZone(last.zone_id) ->
           Some(ZoneSize(last.zone_id))
      [] last.op = "add_set_segment_leds"
         /\ ValidSegment(last.zone_id, last.segment_id) ->
           Some(SegSize(last.zone_id, last.segment_id))
      [] OTHER -> None

C40_WarnedOnlyOversize ==
    /\ TargetOfBatch # None =>
          (last.warned <=> Len(last.colors) > TargetOfBatch[1])
    /\ last.op = "add_set_led" =>
          (last.warned <=> last.led >= controller.num_leds)

\* what the code does: a zone and a segment warn from as many colours as
\* they have LEDs, the controller from one more
WarnedFromExactSize ==
    /\ TargetOfBatch # None =>
          (last.warned <=>
              IF last.op = "add_set_leds"
              THEN Len(last.colors) > TargetOfBatch[1]
              ELSE Len(last.colors) >= TargetOfBatch[1])
    /\ last.op = "add_set_led" =>
          (last.warned <=> last.led >= controller.num_leds)

====
